---- MODULE Spec2Model ----
(***************************************************************************)
(* The component extraction engine of React-Slicer: the class              *)
(* ReactModularizer of src/unnamed/part_003 (the CLI engine, also used     *)
(* through processCode by the API front ends).                             *)
(*                                                                         *)
(* Source text is modelled by its content and its layout: a text is a      *)
(* record [layout, lines]; a line item is a statement (with the statements *)
(* nested in it), an import line, an export line or a blank line.  A name  *)
(* is the sequence of its characters, so that name[0], toUpperCase and     *)
(* length are computed as the code computes them.  A tree node is a line   *)
(* item that carries its source position in uid (<<i>> for the i-th        *)
(* top-level statement, <<i, d, j>> for the j-th statement of the body of  *)
(* its d-th function value, d = 0 for a function declaration's own body).  *)
(***************************************************************************)
EXTENDS Naturals, Sequences, FiniteSets, TLC

\* Bounds of the model.
MaxDecls == 3
MaxRuns == 2
MaxFormatFailures == 1
MaxNameLen == 3
MaxFaults == 1

VARIABLES
    code,                 \* the argument of the running processCode call
    pc,                   \* where the call stands
    ast,                  \* const ast: Program.body, a sequence of nodes
    existingImports,      \* this.existingImports
    extractedComponents,  \* this.extractedComponents
    imports,              \* this.imports
    requiredImports,      \* this.requiredImports
    todo,                 \* declaration nodes the traversal has yet to visit
    componentsToRemove,   \* const componentsToRemove: the paths pushed
    removeIdx,            \* forEach position in componentsToRemove
    removed,              \* the paths whose removed flag is set
    components,           \* const components of generateComponentFiles
    result,               \* what processCode resolved with
    error,                \* what processCode rejected with
    runs,                 \* processCode calls made on this instance
    formatFailures,       \* prettier.format calls that threw
    clsName,              \* the argument given to isExtractableComponent
    clsResult,            \* what it returned: "none" before the call
    earlier,              \* the calls this instance has completed before
    calls,                \* the processCode calls that overlap on one instance
    cli,                  \* a command-line run: its entry point and position
    fs,                   \* the files and directories the run works on
    http,                 \* a request to a modularize handler and its response
    ui                    \* the page of part_001: its state, its run, its timers

\* The variables of the surroundings of the engine: callers, files, requests.
auxVars == <<earlier, calls, cli, fs, http, ui>>

vars == <<code, pc, ast, existingImports, extractedComponents, imports,
          requiredImports, todo, componentsToRemove, removeIdx, removed,
          components, result, error, runs, formatFailures, clsName, clsResult,
          earlier, calls, cli, fs, http, ui>>

-----------------------------------------------------------------------------
(* Characters and names *)

LowerCase == <<"a","b","c","d","e","f","g","h","i","j","k","l","m",
               "n","o","p","q","r","s","t","u","v","w","x","y","z">>
UpperCase == <<"A","B","C","D","E","F","G","H","I","J","K","L","M",
               "N","O","P","Q","R","S","T","U","V","W","X","Y","Z">>

\* String.prototype.toUpperCase on one character: a lowercase letter maps to
\* its capital, every other character (a capital, '_', '$', a digit) to itself.
toUpperCase(ch) ==
    IF \E i \in DOMAIN LowerCase : LowerCase[i] = ch
    THEN UpperCase[CHOOSE i \in DOMAIN LowerCase : LowerCase[i] = ch]
    ELSE ch

NoName == <<>>
App == <<"A","p","p">>
MyApp == <<"M","y","A","p","p">>
Home == <<"H","o","m","e">>
Index == <<"I","n","d","e","x">>
Page == <<"P","a","g","e">>
Layout == <<"L","a","y","o","u","t">>
Header == <<"H","e","a","d","e","r">>
Sidebar == <<"S","i","d","e","b","a","r">>
Footer == <<"F","o","o","t","e","r">>
Row == <<"R","o","w">>
Card == <<"C","a","r","d">>
Tabs == <<"T","a","b","s">>
Panel == <<"P","a","n","e","l">>
Nav == <<"N","a","v">>
React == <<"R","e","a","c","t">>
theme == <<"t","h","e","m","e">>
renderList == <<"r","e","n","d","e","r","L","i","s","t">>
useState == <<"u","s","e","S","t","a","t","e">>
api == <<"a","p","i">>
Loader == <<"L","o","a","d","e","r">>
Banner == <<"B","a","n","n","e","r">>

excludedNames == {App, MyApp, Home, Index, Page, Layout}

\* A mutant of isExtractableComponent: the reserved-name test is left out.
isExtractableNoExclusion(name) ==
    /\ name # NoName
    /\ name[1] = toUpperCase(name[1])
    /\ Len(name) > 1

\* return name && name[0] === name[0].toUpperCase() &&
\*        !excludedNames.includes(name) && name.length > 1;
\* TRUE stands for a truthy result, FALSE for a falsy one ('' or false).
isExtractableComponent(name) ==
    /\ name # NoName
    /\ name[1] = toUpperCase(name[1])
    /\ name \notin excludedNames
    /\ Len(name) > 1

-----------------------------------------------------------------------------
(* Line items, nodes and texts *)

NoUid == <<>>

Item(type, head, id, source, declarations, body, marks) ==
    [type |-> type, head |-> head, id |-> id, source |-> source,
     declarations |-> declarations, body |-> body, marks |-> marks,
     uid |-> NoUid]

\* function <id>(...) { <body> ... }; marks are the runtime markers that
\* occur in the text of the function outside its nested statements.
FunctionDeclaration(id, body, marks) ==
    Item("FunctionDeclaration", "function", id, <<>>, <<>>, body, marks)

\* One binding of a const statement: <id> = <init>.
Declarator(id, init, body) == [id |-> id, init |-> init, body |-> body]

VariableDeclaration(declarations, marks) ==
    Item("VariableDeclaration", "const", NoName, <<>>, declarations, <<>>, marks)

\* import <id>, { <specifiers> } from '<source>';
ImportDeclaration(id, specifiers, source) ==
    Item("ImportDeclaration", "import", id, source, specifiers, <<>>, {})

\* export default <id>;
ExportDefault(id) ==
    Item("ExportDefaultDeclaration", "export default", id, <<>>, <<>>, <<>>, {})

\* An empty line.
Blank == Item("Blank", "", NoName, <<>>, <<>>, <<>>, {})

\* A statement the parser rejects: function Nav() { return <nav>; }
Unterminated ==
    Item("SyntaxError", "function", Nav, <<>>, <<>>, <<>>, {"<"})

Text(layout, lines) == [layout |-> layout, lines |-> lines]
NoText == Text("none", <<>>)

RECURSIVE Concat(_)
Concat(seqs) == IF seqs = <<>> THEN <<>> ELSE Head(seqs) \o Concat(Tail(seqs))

\* The statements directly nested in a node: a function declaration's body,
\* or the bodies of the function values a const statement binds.
Children(node) ==
    IF node.type = "FunctionDeclaration" THEN node.body
    ELSE IF node.type = "VariableDeclaration"
    THEN Concat([d \in DOMAIN node.declarations |-> node.declarations[d].body])
    ELSE <<>>

RECURSIVE AllNodes(_)
AllNodes(stmts) ==
    IF stmts = <<>> THEN {}
    ELSE {Head(stmts)} \cup AllNodes(Children(Head(stmts))) \cup AllNodes(Tail(stmts))

NodeByUid(stmts, uid) == CHOOSE n \in AllNodes(stmts) : n.uid = uid

\* The runtime markers in the text of a node, nested statements included.
RECURSIVE Markers(_)
Markers(node) ==
    node.marks \cup UNION {Markers(c) : c \in {Children(node)[j] : j \in DOMAIN Children(node)}}

-----------------------------------------------------------------------------
(* The host files the model runs on *)

\* import React, { useState } from 'react';
HostReactImport == ImportDeclaration(React, <<useState>>, <<"react">>)

\* import api from './api';
ApiImport == ImportDeclaration(api, <<>>, <<"./api">>)

\* function Header() { return <header><h1>My App</h1></header>; }
HeaderDecl == FunctionDeclaration(Header, <<>>, {"<"})

\* const Sidebar = () => { const [open, setOpen] = useState(false);
\*                         return <aside>Sidebar content</aside>; };
SidebarDecl ==
    VariableDeclaration(<<Declarator(Sidebar, "ArrowFunctionExpression", <<>>)>>,
                        {"useState", "<"})

\* function App() { return <div><Header /><Sidebar /></div>; }
AppDecl == FunctionDeclaration(App, <<>>, {"<", "/>"})

\* function renderList(items) { const Row = () => <li />;
\*                              return items.map(() => <Row />); }
RenderListDecl ==
    FunctionDeclaration(renderList,
        <<VariableDeclaration(<<Declarator(Row, "ArrowFunctionExpression", <<>>)>>,
                              {"<", "/>"})>>,
        {"<", "/>"})

\* function Footer() { function Row() { return 2024; }
\*                     return <footer>{Row()}</footer>; }
FooterDecl ==
    FunctionDeclaration(Footer, <<FunctionDeclaration(Row, <<>>, {})>>, {"<"})

\* const Card = function () { return null; }, theme = 'dark';
CardStmt ==
    VariableDeclaration(<<Declarator(Card, "FunctionExpression", <<>>),
                          Declarator(theme, "StringLiteral", <<>>)>>, {})

\* const Tabs = () => null, Panel = () => null;
TabsStmt ==
    VariableDeclaration(<<Declarator(Tabs, "ArrowFunctionExpression", <<>>),
                          Declarator(Panel, "ArrowFunctionExpression", <<>>)>>, {})

\* async function Loader() { return <p>loading</p>; }
LoaderDecl ==
    [FunctionDeclaration(Loader, <<>>, {"<"}) EXCEPT !.head = "async function"]

\* // Banner component
\* function Banner() { return <div>banner</div>; }
\* The comment is a leading comment of the node and is printed with it.
BannerDecl ==
    [FunctionDeclaration(Banner, <<>>, {"<"}) EXCEPT !.head = "// comment\nfunction"]

DeclMenu == {HeaderDecl, SidebarDecl, AppDecl, RenderListDecl, FooterDecl,
             CardStmt, TabsStmt, LoaderDecl, BannerDecl, Unterminated}

ImportPrefixes == {<<>>, <<HostReactImport>>, <<ApiImport>>}

\* "raw": as the author laid it out; "pretty": already in the formatter's
\* canonical layout.
InputLayouts == {"raw", "pretty"}

DeclSeqs ==
    UNION {{s \in [1..n -> DeclMenu] : \A i, j \in 1..n : i # j => s[i] # s[j]}
           : n \in 0..MaxDecls}

\* A host file holds a statement at least.
Inputs ==
    {t \in {Text(l, p \o d) : l \in InputLayouts, p \in ImportPrefixes, d \in DeclSeqs}
       : t.lines # <<>>}

-----------------------------------------------------------------------------
(* The syntax tree provider: @babel/parser and @babel/generator *)

\* The names a statement binds in the scope it stands in.
BoundNames(item) ==
    IF item.type \in {"FunctionDeclaration", "ImportDeclaration"}
    THEN <<item.id>> \o (IF item.type = "ImportDeclaration" THEN item.declarations ELSE <<>>)
    ELSE IF item.type = "VariableDeclaration"
    THEN [d \in DOMAIN item.declarations |-> item.declarations[d].id]
    ELSE <<>>

Statements(text) == SelectSeq(text.lines, LAMBDA l : l.type # "Blank")

\* parser.parse throws on a statement that is not syntactically valid and on a
\* name declared twice in the module scope.
ParseFails(text) ==
    LET names == Concat([i \in DOMAIN Statements(text) |-> BoundNames(Statements(text)[i])])
    IN \/ \E i \in DOMAIN text.lines : text.lines[i].type = "SyntaxError"
       \/ \E i, j \in DOMAIN names : i # j /\ names[i] = names[j]

WithUid(s, i) ==
    [s EXCEPT
       !.uid = <<i>>,
       !.body = [j \in DOMAIN s.body |-> [s.body[j] EXCEPT !.uid = <<i, 0, j>>]],
       !.declarations =
          IF s.type = "VariableDeclaration"
          THEN [d \in DOMAIN s.declarations |->
                  [s.declarations[d] EXCEPT
                     !.body = [j \in DOMAIN s.declarations[d].body |->
                                 [s.declarations[d].body[j] EXCEPT !.uid = <<i, d, j>>]]]]
          ELSE s.declarations]

\* parser.parse(content, ...) on a text that parses: Program.body, every node
\* at its source position.
parseToAST(text) ==
    [i \in DOMAIN Statements(text) |-> WithUid(Statements(text)[i], i)]

\* generate(path.node, {}, '').code: the text of one node, nested statements
\* included.
generate(node) ==
    [node EXCEPT
       !.uid = NoUid,
       !.body = [j \in DOMAIN node.body |-> [node.body[j] EXCEPT !.uid = NoUid]],
       !.declarations =
          IF node.type = "VariableDeclaration"
          THEN [d \in DOMAIN node.declarations |->
                  [node.declarations[d] EXCEPT
                     !.body = [j \in DOMAIN node.declarations[d].body |->
                                 [node.declarations[d].body[j] EXCEPT !.uid = NoUid]]]]
          ELSE node.declarations]

\* generate(ast, {}, '').code: the whole tree printed in the generator's layout.
generateFile(tree) == Text("babel", [i \in DOMAIN tree |-> generate(tree[i])])

\* A mutant of RemoveNode: a path whose node is a const statement is not
\* removed.
RemoveFunctionsOnly(tree, uid) ==
    LET keep(s) == s.uid # uid \/ s.type = "VariableDeclaration"
        kept == SelectSeq(tree, keep)
    IN [i \in DOMAIN kept |->
          [kept[i] EXCEPT
             !.body = SelectSeq(kept[i].body, keep),
             !.declarations =
                IF kept[i].type = "VariableDeclaration"
                THEN [d \in DOMAIN kept[i].declarations |->
                        [kept[i].declarations[d] EXCEPT
                           !.body = SelectSeq(kept[i].declarations[d].body, keep)]]
                ELSE kept[i].declarations]]

\* A mutant of RemoveNode: the statement that follows the removed one goes
\* with it.
RemoveWithNext(tree, uid) ==
    LET at == {i \in DOMAIN tree : tree[i].uid = uid}
        keep(s) == s.uid # uid
        kept == IF at = {} THEN tree
                ELSE LET k == CHOOSE i \in at : TRUE
                     IN SubSeq(tree, 1, k - 1) \o SubSeq(tree, k + 2, Len(tree))
    IN [i \in DOMAIN kept |->
          [kept[i] EXCEPT
             !.body = SelectSeq(kept[i].body, keep),
             !.declarations =
                IF kept[i].type = "VariableDeclaration"
                THEN [d \in DOMAIN kept[i].declarations |->
                        [kept[i].declarations[d] EXCEPT
                           !.body = SelectSeq(kept[i].declarations[d].body, keep)]]
                ELSE kept[i].declarations]]

\* path.remove() on the tree: the node at uid leaves the list that holds it.
\* A node whose parent was removed before is no longer part of the tree.
RemoveNode(tree, uid) ==
    LET keep(s) == s.uid # uid
        kept == SelectSeq(tree, keep)
    IN [i \in DOMAIN kept |->
          [kept[i] EXCEPT
             !.body = SelectSeq(kept[i].body, keep),
             !.declarations =
                IF kept[i].type = "VariableDeclaration"
                THEN [d \in DOMAIN kept[i].declarations |->
                        [kept[i].declarations[d] EXCEPT
                           !.body = SelectSeq(kept[i].declarations[d].body, keep)]]
                ELSE kept[i].declarations]]

\* The Output Formatter, prettier.format: the canonical layout, which has no
\* empty line at the top of the file.
RECURSIVE StripLeadingBlank(_)
StripLeadingBlank(lines) ==
    IF lines # <<>> /\ Head(lines).type = "Blank"
    THEN StripLeadingBlank(Tail(lines))
    ELSE lines

prettierFormat(text) == Text("pretty", StripLeadingBlank(text.lines))

\* A mutant of formatCode: a text the formatter fails on is lost.
formatCodeLosingText(text, throws) == IF throws THEN NoText ELSE prettierFormat(text)

\* formatCode: try { return await prettier.format(code, ...) }
\*             catch (error) { return code; }
formatCode(text, throws) == IF throws THEN text ELSE prettierFormat(text)

-----------------------------------------------------------------------------
(* The engine: class ReactModularizer *)

IsDeclaration(node) == node.type \in {"FunctionDeclaration", "VariableDeclaration"}

\* A mutant of TraversalOrder: the function declarations of a list are
\* visited before its const statements.
RECURSIVE TraversalByForm(_)
TraversalByForm(stmts) ==
    LET fns == SelectSeq(stmts, LAMBDA s : s.type = "FunctionDeclaration")
        vds == SelectSeq(stmts, LAMBDA s : s.type = "VariableDeclaration")
        walk(list) == Concat([i \in DOMAIN list |->
                                <<list[i].uid>> \o TraversalByForm(Children(list[i]))])
    IN walk(fns) \o walk(vds)

\* traverse(ast, visitor): depth first, a node before the nodes nested in it,
\* the statements of a list in source order.  Only the nodes the visitor has a
\* method for are listed.
RECURSIVE TraversalOrder(_)
TraversalOrder(stmts) ==
    IF stmts = <<>> THEN <<>>
    ELSE (IF IsDeclaration(Head(stmts)) THEN <<Head(stmts).uid>> ELSE <<>>)
         \o TraversalOrder(Children(Head(stmts)))
         \o TraversalOrder(Tail(stmts))

\* A mutant of componentNeedsReact: only the names of the hooks are looked
\* for.
componentNeedsReactHooksOnly(text) ==
    \/ "useState" \in Markers(text)
    \/ "useEffect" \in Markers(text)

\* return code.includes('useState') || code.includes('useEffect') ||
\*        code.includes('React.') || code.includes('<') || code.includes('/>');
componentNeedsReact(text) ==
    \/ "useState" \in Markers(text)
    \/ "useEffect" \in Markers(text)
    \/ "React." \in Markers(text)
    \/ "<" \in Markers(text)
    \/ "/>" \in Markers(text)

\* `import ${name} from './components/${name}';`
ImportLine(name) == ImportDeclaration(name, <<>>, <<"./components/", name>>)

Candidate(name, text, type) ==
    [name |-> name, code |-> text, type |-> type,
     needsReact |-> componentNeedsReact(text)]

\* The visitor method FunctionDeclaration(path): the candidates it records.
FunctionDeclarationVisitor(node) ==
    IF node.id # NoName /\ isExtractableComponent(node.id)
    THEN <<Candidate(node.id, generate(node), "function")>>
    ELSE <<>>

IsFunctionValue(declarator) ==
    declarator.init \in {"ArrowFunctionExpression", "FunctionExpression"}

\* A mutant of VariableDeclarationVisitor: the text captured for a candidate
\* is the text of its own binding, not of the statement.
VariableDeclarationOwnBinding(node) ==
    LET found == SelectSeq(node.declarations,
                           LAMBDA d : /\ d.id # NoName
                                      /\ IsFunctionValue(d)
                                      /\ isExtractableComponent(d.id))
    IN [k \in DOMAIN found |->
          Candidate(found[k].id,
                    generate([node EXCEPT !.declarations = <<found[k]>>]),
                    "arrow")]

\* The visitor method VariableDeclaration(path): one candidate for every
\* binding of the statement that has a name, a function value and an
\* extractable name; its code is the text of the whole statement.
VariableDeclarationVisitor(node) ==
    LET found == SelectSeq(node.declarations,
                           LAMBDA d : /\ d.id # NoName
                                      /\ IsFunctionValue(d)
                                      /\ isExtractableComponent(d.id))
    IN [k \in DOMAIN found |-> Candidate(found[k].id, generate(node), "arrow")]

\* What the visitor records on entering a node.
Visit(node) ==
    IF node.type = "FunctionDeclaration" THEN FunctionDeclarationVisitor(node)
    ELSE VariableDeclarationVisitor(node)

\* component.code.replace(/^function\s+\w+/, 'export default function ' + name):
\* the pattern matches a text that starts with the keyword function and a name.
ReplaceFunctionHead(text, name) ==
    IF text.head = "function"
    THEN [text EXCEPT !.head = "export default function", !.id = name]
    ELSE text

\* import React from 'react';
ReactImportLine == ImportDeclaration(React, <<>>, <<"react">>)

\* The text generateComponentFiles assembles for one component, before it is
\* formatted.
ExportCode(component) ==
    Text("babel",
         (IF component.needsReact THEN <<ReactImportLine, Blank>> ELSE <<>>)
         \o (IF component.type = "function"
             THEN <<ReplaceFunctionHead(component.code, component.name)>>
             ELSE <<component.code, Blank, ExportDefault(component.name)>>))

\* `${component.name}.jsx`
FileName(name) == name \o <<".jsx">>

\* lines[i].trim().startsWith('import ')
StartsWithImport(line) == line.head = "import"

\* The loop of updateAppFile over the lines from line i on: the number of
\* lines that come before the insertion point.
RECURSIVE InsertIndex(_, _, _)
InsertIndex(lines, i, insertIndex) ==
    IF i > Len(lines) THEN insertIndex
    ELSE IF StartsWithImport(lines[i]) THEN InsertIndex(lines, i + 1, i)
    ELSE IF lines[i].type # "Blank" THEN insertIndex
    ELSE InsertIndex(lines, i + 1, insertIndex)

\* A mutant of SpliceImports: the last import line is not inserted.
SpliceAllButLast(lines, insertIndex, importLines) ==
    SubSeq(lines, 1, insertIndex) \o <<Blank>>
    \o SubSeq(importLines, 1, Len(importLines) - 1)
    \o SubSeq(lines, insertIndex + 1, Len(lines))

\* lines.splice(insertIndex, 0, '', ...this.imports)
SpliceImports(lines, insertIndex, importLines) ==
    SubSeq(lines, 1, insertIndex) \o <<Blank>> \o importLines
    \o SubSeq(lines, insertIndex + 1, Len(lines))

\* The text updateAppFile assembles, before it is formatted.
UpdatedContent(tree, importLines) ==
    LET updatedContent == generateFile(tree)
    IN IF Len(importLines) > 0
       THEN Text(updatedContent.layout,
                 SpliceImports(updatedContent.lines,
                               InsertIndex(updatedContent.lines, 1, 0),
                               importLines))
       ELSE updatedContent

NoResult == [updatedApp |-> NoText, components |-> <<>>, extractedCount |-> 0]

-----------------------------------------------------------------------------
(* processCode, step by step *)

Idle ==
    /\ ast = <<>>
    /\ existingImports = <<>>
    /\ extractedComponents = <<>>
    /\ imports = <<>>
    /\ requiredImports = {}
    /\ todo = <<>>
    /\ componentsToRemove = <<>>
    /\ removeIdx = 1
    /\ removed = {}
    /\ components = <<>>
    /\ result = NoResult
    /\ error = "none"
    /\ formatFailures = 0

\* The file system a run works on: the host file ./App.jsx (NoText while it
\* does not exist), the directory ./components and the files in it.
Fs(host, dir, files) == [host |-> host, dir |-> dir, files |-> files]
NoFs == Fs(NoText, FALSE, {})

NoCli ==
    [entry |-> "none", pc |-> "none", exit |-> 0, outcome |-> "none",
     fatal |-> "none", content |-> NoText, result |-> NoResult, written |-> 0,
     faults |-> 0, fs0 |-> NoFs]
NoPayload == [error |-> <<>>, updatedApp |-> NoText, components |-> <<>>]

NoHttp ==
    [handler |-> "none", method |-> "none", body |-> [kind |-> "none", text |-> NoText],
     pc |-> "none", status |-> 0, payload |-> NoPayload, engineStarted |-> FALSE,
     childDeps |-> FALSE]

\* The page as it is mounted: the useState values of the component, no run
\* of its processCode, no timer.
NoUi ==
    [code |-> "blank", results |-> "null", status |-> "ready", progress |-> 0,
     processing |-> FALSE, pc |-> "idle", run |-> 0, response |-> "none",
     timers |-> {}]

\* Nothing around the engine: no caller, no file, no request, no page.
AuxIdle ==
    /\ earlier = <<>>
    /\ calls = <<>>
    /\ cli = NoCli
    /\ fs = NoFs
    /\ http = NoHttp
    /\ ui = NoUi

\* A new ReactModularizer, and processCode(code) called on it.
Init ==
    /\ code \in Inputs
    /\ pc = "processCode"
    /\ runs = 1
    /\ clsName = NoName
    /\ clsResult = "none"
    /\ Idle
    /\ AuxIdle

\* A mutant of processCode: the candidate list and the import list are not
\* reset.
processCodeNoReset ==
    /\ pc = "processCode"
    /\ requiredImports' = {}
    /\ result' = NoResult
    /\ error' = IF ParseFails(code)
                THEN "Code processing failed: Failed to parse code"
                ELSE "none"
    /\ ast' = IF ParseFails(code) THEN <<>> ELSE parseToAST(code)
    /\ pc' = IF ParseFails(code) THEN "rejected" ELSE "extractImports"
    /\ todo' = <<>>
    /\ componentsToRemove' = <<>>
    /\ removeIdx' = 1
    /\ removed' = {}
    /\ components' = <<>>
    /\ UNCHANGED <<code, existingImports, extractedComponents, imports, runs,
                   formatFailures, clsName, clsResult>>
    /\ UNCHANGED auxVars

\* processCode up to the end of parseToAST: the state is reset, then the code
\* is parsed; a parser error is rethrown by parseToAST and by processCode.
processCode ==
    /\ pc = "processCode"
    /\ extractedComponents' = <<>>
    /\ imports' = <<>>
    /\ requiredImports' = {}
    /\ result' = NoResult
    /\ error' = IF ParseFails(code)
                THEN "Code processing failed: Failed to parse code"
                ELSE "none"
    /\ ast' = IF ParseFails(code) THEN <<>> ELSE parseToAST(code)
    /\ pc' = IF ParseFails(code) THEN "rejected" ELSE "extractImports"
    /\ todo' = <<>>
    /\ componentsToRemove' = <<>>
    /\ removeIdx' = 1
    /\ removed' = {}
    /\ components' = <<>>
    /\ UNCHANGED <<code, existingImports, runs, formatFailures, clsName, clsResult>>
    /\ UNCHANGED auxVars

\* extractImports(ast).  The visitor method is called with this bound to the
\* traversal state, which is undefined here, not to the modularizer: for an
\* import from 'react', this.requiredImports.add throws a TypeError, which
\* processCode rethrows.  Otherwise the import texts are kept and
\* extractComponents starts its traversal.
extractImports ==
    /\ pc = "extractImports"
    /\ LET importNodes == SelectSeq(ast, LAMBDA n : n.type = "ImportDeclaration")
           throws == \E i \in DOMAIN importNodes : importNodes[i].source = <<"react">>
       IN /\ existingImports' =
                IF throws THEN existingImports
                ELSE [i \in DOMAIN importNodes |-> generate(importNodes[i])]
          /\ error' = IF throws
                      THEN "Code processing failed: Cannot read properties of undefined"
                      ELSE error
          /\ pc' = IF throws THEN "rejected" ELSE "traverse"
          /\ todo' = IF throws THEN <<>> ELSE TraversalOrder(ast)
    /\ UNCHANGED <<code, ast, extractedComponents, imports, requiredImports,
                   componentsToRemove, removeIdx, removed, components, result,
                   runs, formatFailures, clsName, clsResult>>
    /\ UNCHANGED auxVars

\* A mutant of extractComponentsVisit: the visitor removes the path of a
\* candidate as soon as it has recorded it, and the traversal skips what was
\* nested in it.
extractComponentsVisitRemoving ==
    /\ pc = "traverse"
    /\ todo # <<>>
    /\ LET node == NodeByUid(ast, Head(todo))
           found == Visit(node)
       IN /\ extractedComponents' = extractedComponents \o found
          /\ imports' = imports \o [k \in DOMAIN found |-> ImportLine(found[k].name)]
          /\ componentsToRemove' = componentsToRemove
          /\ ast' = IF found = <<>> THEN ast ELSE RemoveNode(ast, node.uid)
          /\ todo' = IF found = <<>> THEN Tail(todo)
                     ELSE SelectSeq(Tail(todo),
                                    LAMBDA u : Len(node.uid) > 1 \/ u[1] # node.uid[1])
    /\ UNCHANGED <<code, pc, existingImports, requiredImports, removeIdx,
                   removed, components, result, error, runs, formatFailures,
                   clsName, clsResult>>
    /\ UNCHANGED auxVars

\* extractComponents, the traversal: the visitor enters the next declaration
\* node; for every candidate found there, the candidate, its import line and
\* the path of the node are pushed.
extractComponentsVisit ==
    /\ pc = "traverse"
    /\ todo # <<>>
    /\ LET node == NodeByUid(ast, Head(todo))
           found == Visit(node)
       IN /\ extractedComponents' = extractedComponents \o found
          /\ imports' = imports \o [k \in DOMAIN found |-> ImportLine(found[k].name)]
          /\ componentsToRemove' =
                componentsToRemove \o [k \in DOMAIN found |-> node.uid]
    /\ todo' = Tail(todo)
    /\ UNCHANGED <<code, pc, ast, existingImports, requiredImports, removeIdx,
                   removed, components, result, error, runs, formatFailures,
                   clsName, clsResult>>
    /\ UNCHANGED auxVars

\* extractComponents, componentsToRemove.forEach(path => path.remove()), one
\* path at a time, the traversal being over.  remove() on a path that is
\* already removed throws ("NodePath has been removed so is read-only"), and
\* processCode rethrows.  After the last path generateComponentFiles starts.
extractComponentsRemove ==
    /\ pc = "traverse"
    /\ todo = <<>>
    /\ IF removeIdx > Len(componentsToRemove)
       THEN /\ pc' = "generate"
            /\ UNCHANGED <<ast, removed, removeIdx, error>>
       ELSE IF componentsToRemove[removeIdx] \in removed
       THEN /\ pc' = "rejected"
            /\ error' = "Code processing failed: NodePath has been removed so is read-only."
            /\ UNCHANGED <<ast, removed, removeIdx>>
       ELSE /\ ast' = RemoveNode(ast, componentsToRemove[removeIdx])
            /\ removed' = removed \cup {componentsToRemove[removeIdx]}
            /\ removeIdx' = removeIdx + 1
            /\ UNCHANGED <<pc, error>>
    /\ UNCHANGED <<code, existingImports, extractedComponents, imports,
                   requiredImports, todo, componentsToRemove, components, result,
                   runs, formatFailures, clsName, clsResult>>
    /\ UNCHANGED auxVars

\* generateComponentFiles: one turn of its loop, up to the end of the awaited
\* formatCode; the formatter may throw, and formatCode then returns the text
\* it was given.
generateComponentFiles ==
    /\ pc = "generate"
    /\ Len(components) < Len(extractedComponents)
    /\ \E throws \in BOOLEAN :
          /\ throws => formatFailures < MaxFormatFailures
          /\ formatFailures' = IF throws THEN formatFailures + 1 ELSE formatFailures
          /\ LET component == extractedComponents[Len(components) + 1]
             IN components' =
                   Append(components,
                          [name |-> component.name,
                           filename |-> FileName(component.name),
                           code |-> formatCode(ExportCode(component), throws)])
    /\ UNCHANGED <<code, pc, ast, existingImports, extractedComponents, imports,
                   requiredImports, todo, componentsToRemove, removeIdx, removed,
                   result, error, runs, clsName, clsResult>>
    /\ UNCHANGED auxVars

\* updateAppFile(ast) and the return of processCode: the tree is printed, the
\* import lines are spliced in, the text is formatted, the result is returned.
updateAppFile ==
    /\ pc = "generate"
    /\ Len(components) = Len(extractedComponents)
    /\ \E throws \in BOOLEAN :
          /\ throws => formatFailures < MaxFormatFailures
          /\ formatFailures' = IF throws THEN formatFailures + 1 ELSE formatFailures
          /\ result' = [updatedApp |-> formatCode(UpdatedContent(ast, imports), throws),
                        components |-> components,
                        extractedCount |-> Len(extractedComponents)]
    /\ pc' = "done"
    /\ UNCHANGED <<code, ast, existingImports, extractedComponents, imports,
                   requiredImports, todo, componentsToRemove, removeIdx, removed,
                   components, error, runs, clsName, clsResult>>
    /\ UNCHANGED auxVars

\* processCode called again on the same instance, on the updatedApp text the
\* call before returned.
processCodeAgain ==
    /\ pc = "done"
    /\ runs < MaxRuns
    /\ code' = result.updatedApp
    /\ runs' = runs + 1
    /\ pc' = "processCode"
    /\ UNCHANGED <<ast, existingImports, extractedComponents, imports,
                   requiredImports, todo, componentsToRemove, removeIdx, removed,
                   components, result, error, formatFailures, clsName, clsResult>>
    /\ UNCHANGED auxVars

Next ==
    \/ processCode
    \/ extractImports
    \/ extractComponentsVisit
    \/ extractComponentsRemove
    \/ generateComponentFiles
    \/ updateAppFile
    \/ processCodeAgain

Spec == Init /\ [][Next]_vars

-----------------------------------------------------------------------------
(* Hosts with a comment or a directive among their first lines *)

\* 'use client';
\* The printer puts the directives of a file before its statements.
UseClient == Item("Directive", "'use client'", NoName, <<>>, <<>>, <<>>, {})

\* import theme from './theme';
ThemeImport == ImportDeclaration(theme, <<>>, <<"./theme">>)

\* // the client of the back end
\* import api from './api';
\* The comment is a leading comment of the import and is printed with it, on
\* a line of its own before the line of the import.
CommentedApiImport == [ApiImport EXCEPT !.head = "// comment\nimport"]

\* // colours
\* import theme from './theme';
CommentedThemeImport == [ThemeImport EXCEPT !.head = "// comment\nimport"]

LayoutPrefixes ==
    {<<>>, <<ApiImport>>, <<ApiImport, ThemeImport>>, <<CommentedApiImport>>,
     <<ApiImport, CommentedThemeImport>>, <<UseClient>>, <<UseClient, ApiImport>>}

\* Hosts of one or two declarations after these first lines.
LayoutInputs ==
    {Text(l, p \o d) :
        l \in InputLayouts, p \in LayoutPrefixes,
        d \in {s \in DeclSeqs : /\ Len(s) \in 1..2
                                /\ \A i \in DOMAIN s :
                                      s[i] \in {HeaderDecl, SidebarDecl, AppDecl, CardStmt}}}

\* A new ReactModularizer, and processCode called on it with such a host.
LayoutInit ==
    /\ code \in LayoutInputs
    /\ pc = "processCode"
    /\ runs = 1
    /\ clsName = NoName
    /\ clsResult = "none"
    /\ Idle
    /\ AuxIdle

LayoutSpec == LayoutInit /\ [][Next]_vars

-----------------------------------------------------------------------------

(* The classifier on its own: isExtractableComponent applied to a name *)

NameAlphabet == {"A", "p", "a", "_", "$"}

NamesUpTo(n) == UNION {[1..k -> NameAlphabet] : k \in 0..n}

ClassifierNames == NamesUpTo(MaxNameLen) \cup excludedNames \cup {Header, Sidebar}

ClassifierInit ==
    /\ clsName \in ClassifierNames
    /\ clsResult = "none"
    /\ code = NoText
    /\ pc = "idle"
    /\ runs = 0
    /\ Idle
    /\ AuxIdle

Classify ==
    /\ clsResult = "none"
    /\ clsResult' = IF isExtractableComponent(clsName) THEN "truthy" ELSE "falsy"
    /\ UNCHANGED <<code, pc, ast, existingImports, extractedComponents, imports,
                   requiredImports, todo, componentsToRemove, removeIdx, removed,
                   components, result, error, runs, formatFailures, clsName>>
    /\ UNCHANGED auxVars

ClassifierNext == Classify

ClassifierSpec == ClassifierInit /\ [][ClassifierNext]_vars

-----------------------------------------------------------------------------
(* processCode on a new instance, as one function of its argument *)

\* The candidates extractComponents records on a tree, in the order the
\* traversal finds them.
Scan(tree) ==
    LET order == TraversalOrder(tree)
    IN Concat([k \in DOMAIN order |-> Visit(NodeByUid(tree, order[k]))])

\* The paths extractComponents pushes to componentsToRemove, one per candidate.
ScanPaths(tree) ==
    LET order == TraversalOrder(tree)
    IN Concat([k \in DOMAIN order |->
                 [j \in DOMAIN Visit(NodeByUid(tree, order[k])) |-> order[k]]])

\* componentsToRemove.forEach(path => path.remove())
RECURSIVE RemoveAll(_, _)
RemoveAll(tree, paths) ==
    IF paths = <<>> THEN tree
    ELSE RemoveAll(RemoveNode(tree, Head(paths)), Tail(paths))

\* The errors processCode rethrows: the parser's, the TypeError of
\* extractImports on an import from 'react', and remove() on a path that was
\* removed before.
Rejects(text) ==
    \/ ParseFails(text)
    \/ \E i \in DOMAIN parseToAST(text) :
          /\ parseToAST(text)[i].type = "ImportDeclaration"
          /\ parseToAST(text)[i].source = <<"react">>
    \/ \E i, j \in DOMAIN ScanPaths(parseToAST(text)) :
          i # j /\ ScanPaths(parseToAST(text))[i] = ScanPaths(parseToAST(text))[j]

\* What processCode(text) on a new instance can resolve with, for a text it
\* does not reject: one result for every way the formatter calls can fail.
Results(text) ==
    LET tree == parseToAST(text)
        found == Scan(tree)
        importLines == [k \in DOMAIN found |-> ImportLine(found[k].name)]
        rest == RemoveAll(tree, ScanPaths(tree))
    IN {[updatedApp |-> formatCode(UpdatedContent(rest, importLines), hostThrows),
         components |-> [k \in DOMAIN found |->
                           [name |-> found[k].name,
                            filename |-> FileName(found[k].name),
                            code |-> formatCode(ExportCode(found[k]), throws[k])]],
         extractedCount |-> Len(found)]
        : throws \in [DOMAIN found -> BOOLEAN], hostThrows \in BOOLEAN}

-----------------------------------------------------------------------------
(* One instance called again and again, each call after the one before *)

\* Hosts of one declaration at most, with or without an import before it, as
\* their author laid them out.
SeqInputs ==
    {t \in Inputs : /\ t.layout = "raw"
                    /\ Len(SelectSeq(t.lines, LAMBDA l : l.type # "ImportDeclaration")) <= 1}

SeqInit ==
    /\ code \in SeqInputs
    /\ pc = "processCode"
    /\ runs = 1
    /\ clsName = NoName
    /\ clsResult = "none"
    /\ Idle
    /\ AuxIdle

\* The call has resolved or rejected, and processCode is called on the same
\* instance with another text.
processCodeNext ==
    /\ pc \in {"done", "rejected"}
    /\ runs < MaxRuns
    /\ \E text \in SeqInputs : code' = text
    /\ earlier' = Append(earlier, [code |-> code, result |-> result, error |-> error])
    /\ runs' = runs + 1
    /\ pc' = "processCode"
    /\ UNCHANGED <<ast, existingImports, extractedComponents, imports,
                   requiredImports, todo, componentsToRemove, removeIdx, removed,
                   components, result, error, formatFailures, clsName, clsResult,
                   calls, cli, fs, http, ui>>

SeqNext ==
    \/ processCode
    \/ extractImports
    \/ extractComponentsVisit
    \/ extractComponentsRemove
    \/ generateComponentFiles
    \/ updateAppFile
    \/ processCodeNext

SeqSpec == SeqInit /\ [][SeqNext]_vars

-----------------------------------------------------------------------------
(* Two processCode calls that overlap on one instance *)

\* The dependencies are loaded, so a call runs from its first line to its
\* first await without a break; at every await the other call may run.
\* extractedComponents, imports and requiredImports are the fields of the
\* instance; the record of a call holds its local variables.
NewCall(text) ==
    [pc |-> "start", code |-> text, ast |-> <<>>, iterated |-> <<>>,
     components |-> <<>>, updatedContent |-> NoText, result |-> NoResult]

OverlapInit ==
    /\ calls \in [1..2 -> {NewCall(text) : text \in SeqInputs}]
    /\ code = NoText
    /\ pc = "idle"
    /\ runs = 0
    /\ clsName = NoName
    /\ clsResult = "none"
    /\ Idle
    /\ earlier = <<>>
    /\ cli = NoCli
    /\ fs = NoFs
    /\ http = NoHttp
    /\ ui = NoUi

\* processCode from its first line to its first await: the fields are
\* reset, the code is parsed, extractImports and extractComponents run,
\* generateComponentFiles starts its loop over this.extractedComponents and
\* awaits the first formatCode (with no candidate it returns at once and
\* processCode awaits it).
callStart(c) ==
    /\ calls[c].pc = "start"
    /\ LET text == calls[c].code
           tree == parseToAST(text)
       IN IF Rejects(text)
          THEN /\ calls' = [calls EXCEPT ![c].pc = "rejected"]
               /\ extractedComponents' =
                     IF ParseFails(text) \/ \E i \in DOMAIN tree : tree[i].source = <<"react">>
                     THEN <<>> ELSE Scan(tree)
               /\ imports' =
                     [k \in DOMAIN extractedComponents' |->
                        ImportLine(extractedComponents'[k].name)]
          ELSE /\ extractedComponents' = Scan(tree)
               /\ imports' = [k \in DOMAIN Scan(tree) |-> ImportLine(Scan(tree)[k].name)]
               /\ calls' = [calls EXCEPT
                               ![c].pc = IF Scan(tree) = <<>> THEN "update" ELSE "format",
                               ![c].ast = RemoveAll(tree, ScanPaths(tree)),
                               ![c].iterated = Scan(tree)]
    /\ requiredImports' = {}
    /\ UNCHANGED <<code, pc, ast, existingImports, todo, componentsToRemove,
                   removeIdx, removed, components, result, error, runs,
                   formatFailures, clsName, clsResult, earlier, cli, fs, http, ui>>

\* generateComponentFiles resumes after an awaited formatCode: the module is
\* pushed to the components of the call, and the loop goes on over the array
\* it started on, to the next await or to its end.
callFormatModule(c) ==
    /\ calls[c].pc = "format"
    /\ \E throws \in BOOLEAN :
          /\ throws => formatFailures < MaxFormatFailures
          /\ formatFailures' = IF throws THEN formatFailures + 1 ELSE formatFailures
          /\ LET component == calls[c].iterated[Len(calls[c].components) + 1]
                 pushed == Append(calls[c].components,
                                  [name |-> component.name,
                                   filename |-> FileName(component.name),
                                   code |-> formatCode(ExportCode(component), throws)])
             IN calls' = [calls EXCEPT
                             ![c].components = pushed,
                             ![c].pc = IF Len(pushed) = Len(calls[c].iterated)
                                       THEN "update" ELSE "format"]
    /\ UNCHANGED <<code, pc, ast, existingImports, extractedComponents, imports,
                   requiredImports, todo, componentsToRemove, removeIdx, removed,
                   components, result, error, runs, clsName, clsResult, earlier,
                   cli, fs, http, ui>>

\* processCode resumes after generateComponentFiles and calls updateAppFile,
\* which prints the tree of the call, splices in this.imports as it is now
\* and awaits formatCode.
callUpdateAppFile(c) ==
    /\ calls[c].pc = "update"
    /\ calls' = [calls EXCEPT ![c].updatedContent = UpdatedContent(calls[c].ast, imports),
                              ![c].pc = "return"]
    /\ UNCHANGED <<code, pc, ast, existingImports, extractedComponents, imports,
                   requiredImports, todo, componentsToRemove, removeIdx, removed,
                   components, result, error, runs, formatFailures, clsName,
                   clsResult, earlier, cli, fs, http, ui>>

\* The awaited formatCode of updateAppFile is over and processCode returns,
\* with this.extractedComponents.length as it is now.
callReturn(c) ==
    /\ calls[c].pc = "return"
    /\ \E throws \in BOOLEAN :
          /\ throws => formatFailures < MaxFormatFailures
          /\ formatFailures' = IF throws THEN formatFailures + 1 ELSE formatFailures
          /\ calls' = [calls EXCEPT
                          ![c].result =
                             [updatedApp |-> formatCode(calls[c].updatedContent, throws),
                              components |-> calls[c].components,
                              extractedCount |-> Len(extractedComponents)],
                          ![c].pc = "done"]
    /\ UNCHANGED <<code, pc, ast, existingImports, extractedComponents, imports,
                   requiredImports, todo, componentsToRemove, removeIdx, removed,
                   components, result, error, runs, clsName, clsResult, earlier,
                   cli, fs, http, ui>>

OverlapNext ==
    \/ \E c \in DOMAIN calls : callStart(c)
    \/ \E c \in DOMAIN calls : callFormatModule(c)
    \/ \E c \in DOMAIN calls : callUpdateAppFile(c)
    \/ \E c \in DOMAIN calls : callReturn(c)

OverlapSpec == OverlapInit /\ [][OverlapNext]_vars

-----------------------------------------------------------------------------
(* The command-line entry points and their run() *)

\* part_003, lib/Testmodularize.jsTest2, lib/modularize.js
Entries == {"ReactModularizer", "ReactModularizerTest2", "NextJSModularizer"}

\* The engine of pages/api/modularize.js, which no entry point runs.
ApiModularizer == "ApiModularizer"

\* The names the isExtractableComponent of each engine refuses.
excludedNamesOf(entry) ==
    IF entry = "ReactModularizer" THEN excludedNames
    ELSE IF entry \in {"ReactModularizerTest2", ApiModularizer} THEN {App}
    ELSE {App, MyApp, Home, Index}

isExtractableBy(entry, name) ==
    /\ name # NoName
    /\ name[1] = toUpperCase(name[1])
    /\ name \notin excludedNamesOf(entry)
    /\ Len(name) > 1

\* The candidates the visitors of an entry point record on entering a node.
VisitBy(entry, node) ==
    IF node.type = "FunctionDeclaration"
    THEN IF isExtractableBy(entry, node.id)
         THEN <<Candidate(node.id, generate(node), "function")>>
         ELSE <<>>
    ELSE LET found == SelectSeq(node.declarations,
                                LAMBDA d : /\ IsFunctionValue(d)
                                           /\ isExtractableBy(entry, d.id))
         IN [k \in DOMAIN found |-> Candidate(found[k].id, generate(node), "arrow")]

ScanBy(entry, tree) ==
    LET order == TraversalOrder(tree)
    IN Concat([k \in DOMAIN order |-> VisitBy(entry, NodeByUid(tree, order[k]))])

ScanPathsBy(entry, tree) ==
    LET order == TraversalOrder(tree)
    IN Concat([k \in DOMAIN order |->
                 [j \in DOMAIN VisitBy(entry, NodeByUid(tree, order[k])) |-> order[k]]])

\* The errors the engine of an entry point throws on a text.  Only part_003
\* and pages/api/modularize.js collect the imports before they scan.
RejectsBy(entry, text) ==
    IF entry = "ReactModularizer" THEN Rejects(text)
    ELSE \/ ParseFails(text)
         \/ /\ entry = ApiModularizer
            /\ \E i \in DOMAIN parseToAST(text) :
                  /\ parseToAST(text)[i].type = "ImportDeclaration"
                  /\ parseToAST(text)[i].source = <<"react">>
         \/ \E i, j \in DOMAIN ScanPathsBy(entry, parseToAST(text)) :
               /\ i # j
               /\ ScanPathsBy(entry, parseToAST(text))[i]
                     = ScanPathsBy(entry, parseToAST(text))[j]

\* The text of a component file before it is formatted: part_003 and
\* pages/api/modularize.js import React when the component needs it,
\* lib/modularize.js always, lib/Testmodularize.jsTest2 never.
ExportCodeBy(entry, component) ==
    IF entry \in {"ReactModularizer", ApiModularizer} THEN ExportCode(component)
    ELSE ExportCode([component EXCEPT !.needsReact = (entry = "NextJSModularizer")])

\* The updated host text before it is formatted; lib/Testmodularize.jsTest2
\* splices the import lines first and the empty line after them.
UpdatedContentBy(entry, tree, importLines) ==
    IF entry # "ReactModularizerTest2" \/ importLines = <<>>
    THEN UpdatedContent(tree, importLines)
    ELSE LET lines == generateFile(tree).lines
             insertIndex == InsertIndex(lines, 1, 0)
         IN Text("babel", SubSeq(lines, 1, insertIndex) \o importLines \o <<Blank>>
                          \o SubSeq(lines, insertIndex + 1, Len(lines)))

\* The component files and the updated host text a run computes for a host
\* text its engine does not reject, for every way the formatter can fail.
ResultsBy(entry, text) ==
    IF entry = "ReactModularizer" THEN Results(text)
    ELSE IF entry = ApiModularizer /\ ScanBy(entry, parseToAST(text)) = <<>>
    THEN {[updatedApp |-> text, components |-> <<>>, extractedCount |-> 0]}
    ELSE LET tree == parseToAST(text)
             found == ScanBy(entry, tree)
             importLines == [k \in DOMAIN found |-> ImportLine(found[k].name)]
             rest == RemoveAll(tree, ScanPathsBy(entry, tree))
         IN {[updatedApp |-> formatCode(UpdatedContentBy(entry, rest, importLines),
                                        hostThrows),
              components |-> [k \in DOMAIN found |->
                                [name |-> found[k].name,
                                 filename |-> FileName(found[k].name),
                                 code |-> formatCode(ExportCodeBy(entry, found[k]),
                                                     throws[k])]],
              extractedCount |-> Len(found)]
             : throws \in [DOMAIN found -> BOOLEAN], hostThrows \in BOOLEAN}

\* What the entry point does with an error run() catches: part_003 rethrows
\* and its caller exits with 1, lib/Testmodularize.jsTest2 exits with 1,
\* lib/modularize.js logs the message and returns.
CatchExit(entry) == IF entry = "NextJSModularizer" THEN 0 ELSE 1

CatchOutcome(entry) == IF entry = "ReactModularizer" THEN "rejected" ELSE "resolved"

\* run() has caught an error of the given kind.
Caught(kind) ==
    [cli EXCEPT !.pc = "exited", !.fatal = kind,
                !.exit = CatchExit(cli.entry), !.outcome = CatchOutcome(cli.entry)]

\* The sample lib/modularize.js creates when it finds no input file.
sampleApp == Text("raw", <<HostReactImport, HeaderDecl, SidebarDecl, AppDecl>>)

\* A component file left by an earlier run.
StaleFile == [filename |-> FileName(Header), code |-> Text("pretty", <<ExportDefault(Header)>>)]

\* writeFileSync(path, code): the file at the path holds the code.
WriteFile(files, filename, text) ==
    {f \in files : f.filename # filename} \cup {[filename |-> filename, code |-> text]}

CliInit ==
    /\ fs \in {Fs(host, dir, files) :
                  host \in SeqInputs \cup {NoText}, dir \in BOOLEAN,
                  files \in {{}, {StaleFile}}}
    /\ fs.files # {} => fs.dir
    /\ \E entry \in Entries :
          cli = [NoCli EXCEPT !.entry = entry, !.fs0 = fs,
                              !.pc = IF entry = "NextJSModularizer"
                                     THEN "findInputFile" ELSE "readAppFile"]
    /\ code = NoText
    /\ pc = "idle"
    /\ runs = 0
    /\ clsName = NoName
    /\ clsResult = "none"
    /\ Idle
    /\ earlier = <<>>
    /\ calls = <<>>
    /\ http = NoHttp
    /\ ui = NoUi

engineVars ==
    <<code, pc, ast, existingImports, extractedComponents, imports,
      requiredImports, todo, componentsToRemove, removeIdx, removed, components,
      result, error, runs, formatFailures, clsName, clsResult>>

\* lib/modularize.js, constructor: findInputFile; with no input file it
\* writes the sample to ./App.jsx.
findInputFile ==
    /\ cli.pc = "findInputFile"
    /\ fs' = IF fs.host = NoText THEN [fs EXCEPT !.host = sampleApp] ELSE fs
    /\ cli' = [cli EXCEPT !.pc = "readAppFile"]
    /\ UNCHANGED <<engineVars, earlier, calls, http, ui>>

\* A mutant of readAppFile: the components directory is made before the
\* host is read.
readAppFileMakingDirectory ==
    /\ cli.pc = "readAppFile"
    /\ fs' = [fs EXCEPT !.dir = TRUE]
    /\ cli' = IF fs.host = NoText THEN Caught("missing input file")
                ELSE [cli EXCEPT !.content = fs.host, !.pc = "processCode"]
    /\ UNCHANGED <<engineVars, earlier, calls, http, ui>>

\* run(): the host file is read; when it does not exist an error is thrown.
readAppFile ==
    /\ cli.pc = "readAppFile"
    /\ cli' = IF fs.host = NoText THEN Caught("missing input file")
                ELSE [cli EXCEPT !.content = fs.host, !.pc = "processCode"]
    /\ UNCHANGED <<engineVars, fs, earlier, calls, http, ui>>

\* run(): the engine works on the content read, with no effect on the files;
\* on an error run() ends in its catch, with no candidate it returns.
runProcessCode ==
    /\ cli.pc = "processCode"
    /\ IF RejectsBy(cli.entry, cli.content)
       THEN cli' = Caught(IF ParseFails(cli.content) THEN "parse failure"
                           ELSE "engine failure")
       ELSE \E r \in ResultsBy(cli.entry, cli.content) :
               cli' = IF r.components = <<>>
                      THEN [cli EXCEPT !.result = r, !.pc = "exited",
                                       !.outcome = "resolved"]
                      ELSE [cli EXCEPT !.result = r,
                                       !.pc = "ensureComponentsDirectory"]
    /\ UNCHANGED <<engineVars, fs, earlier, calls, http, ui>>

\* A mutant of ensureComponentsDirectory: mkdirSync without the existsSync
\* test and without the recursive option, which throws when the directory
\* exists.
ensureComponentsDirectoryUnguarded ==
    /\ cli.pc = "ensureComponentsDirectory"
    /\ IF fs.dir
       THEN /\ cli' = Caught("write failure")
            /\ UNCHANGED fs
       ELSE /\ cli' = [cli EXCEPT !.pc = "writeComponentFiles"]
            /\ fs' = [fs EXCEPT !.dir = TRUE]
    /\ UNCHANGED <<engineVars, earlier, calls, http, ui>>

\* ensureComponentsDirectory: mkdirSync when the directory does not exist;
\* mkdirSync may throw.
ensureComponentsDirectory ==
    /\ cli.pc = "ensureComponentsDirectory"
    /\ \E fails \in BOOLEAN :
          /\ fails => (~fs.dir /\ cli.faults < MaxFaults)
          /\ IF fails
             THEN /\ cli' = [Caught("write failure") EXCEPT !.faults = cli.faults + 1]
                  /\ UNCHANGED fs
             ELSE /\ cli' = [cli EXCEPT !.pc = "writeComponentFiles"]
                  /\ fs' = [fs EXCEPT !.dir = TRUE]
    /\ UNCHANGED <<engineVars, earlier, calls, http, ui>>

\* A mutant of writeComponentFiles: the host file is saved before the
\* component file is written.
writeComponentFilesAfterHost ==
    /\ cli.pc = "writeComponentFiles"
    /\ \E fails \in BOOLEAN :
          /\ fails => cli.faults < MaxFaults
          /\ IF fails
             THEN /\ cli' = [Caught("write failure") EXCEPT !.faults = cli.faults + 1]
                  /\ fs' = [fs EXCEPT !.host = cli.result.updatedApp]
             ELSE LET component == cli.result.components[cli.written + 1]
                  IN /\ fs' = [fs EXCEPT
                                  !.host = cli.result.updatedApp,
                                  !.files =
                                     WriteFile(fs.files, component.filename, component.code)]
                     /\ cli' = [cli EXCEPT
                                   !.written = cli.written + 1,
                                   !.pc = IF cli.written + 1 = Len(cli.result.components)
                                          THEN "writeAppFile"
                                          ELSE "writeComponentFiles"]
    /\ UNCHANGED <<engineVars, earlier, calls, http, ui>>

\* writeComponentFiles: one turn of its loop; writeFileSync may throw.
writeComponentFiles ==
    /\ cli.pc = "writeComponentFiles"
    /\ \E fails \in BOOLEAN :
          /\ fails => cli.faults < MaxFaults
          /\ IF fails
             THEN /\ cli' = [Caught("write failure") EXCEPT !.faults = cli.faults + 1]
                  /\ UNCHANGED fs
             ELSE LET component == cli.result.components[cli.written + 1]
                  IN /\ fs' = [fs EXCEPT !.files =
                                   WriteFile(fs.files, component.filename, component.code)]
                     /\ cli' = [cli EXCEPT
                                   !.written = cli.written + 1,
                                   !.pc = IF cli.written + 1 = Len(cli.result.components)
                                          THEN "writeAppFile"
                                          ELSE "writeComponentFiles"]
    /\ UNCHANGED <<engineVars, earlier, calls, http, ui>>

\* run(): fs.writeFileSync(this.appFilePath, updatedApp), then the results
\* are displayed and run() returns.
writeAppFile ==
    /\ cli.pc = "writeAppFile"
    /\ \E fails \in BOOLEAN :
          /\ fails => cli.faults < MaxFaults
          /\ IF fails
             THEN /\ cli' = [Caught("write failure") EXCEPT !.faults = cli.faults + 1]
                  /\ UNCHANGED fs
             ELSE /\ fs' = [fs EXCEPT !.host = cli.result.updatedApp]
                  /\ cli' = [cli EXCEPT !.pc = "exited", !.outcome = "resolved"]
    /\ UNCHANGED <<engineVars, earlier, calls, http, ui>>

CliNext ==
    \/ findInputFile
    \/ readAppFile
    \/ runProcessCode
    \/ ensureComponentsDirectory
    \/ writeComponentFiles
    \/ writeAppFile

CliSpec == CliInit /\ [][CliNext]_vars

-----------------------------------------------------------------------------
(* The modularize handlers *)

\* pages/api/modularize.js and part_002 export a handler that is given every
\* method; server.js and part_004 register theirs with app.post.
Handlers == {"pages/api/modularize.js", "part_002", "server.js", "part_004"}

ExportedHandlers == {"pages/api/modularize.js", "part_002"}

\* The message of the error @babel/parser throws.
ParserMessage == "Unterminated JSX contents"

\* The message of the error an engine throws on a text it rejects.
ErrorMessage(entry, text) ==
    IF ParseFails(text) THEN <<"Failed to parse code: ", ParserMessage>>
    ELSE IF /\ entry \in {"ReactModularizer", ApiModularizer}
            /\ \E i \in DOMAIN parseToAST(text) : parseToAST(text)[i].source = <<"react">>
    THEN <<"Cannot read properties of undefined (reading 'requiredImports')">>
    ELSE <<"NodePath has been removed so is read-only.">>

\* The code field of a request body: absent, a string, or another JSON value.
Bodies ==
    {[kind |-> k, text |-> NoText] : k \in {"missing", "empty", "number", "array", "object"}}
    \cup {[kind |-> "string", text |-> t] : t \in SeqInputs \cup {Text("raw", <<Blank>>)}}

\* !code
IsFalsy(body) == body.kind \in {"missing", "empty"}

\* code.trim().length === 0, for a string
IsBlank(body) ==
    body.kind = "string" /\ \A i \in DOMAIN body.text.lines : body.text.lines[i].type = "Blank"

\* The elements of a finite set, one after the other.
RECURSIVE SeqOf(_)
SeqOf(S) ==
    IF S = {} THEN <<>>
    ELSE LET x == CHOOSE y \in S : TRUE IN <<x>> \o SeqOf(S \ {x})

HandlerInit ==
    /\ \E h \in Handlers, m \in {"POST", "GET"}, b \in Bodies, deps \in BOOLEAN :
          /\ h \notin ExportedHandlers => m = "POST"
          /\ h # "part_002" => deps
          /\ http = [NoHttp EXCEPT !.handler = h, !.method = m, !.body = b,
                                   !.pc = "received", !.childDeps = deps]
    /\ code = NoText
    /\ pc = "idle"
    /\ runs = 0
    /\ clsName = NoName
    /\ clsResult = "none"
    /\ Idle
    /\ earlier = <<>>
    /\ calls = <<>>
    /\ cli = NoCli
    /\ fs = NoFs
    /\ ui = NoUi

Respond(status, payload) ==
    [http EXCEPT !.pc = "responded", !.status = status, !.payload = payload]

\* handler(req, res) of pages/api/modularize.js and of part_002, up to the
\* try: 405 for a method that is not POST, 400 for a code that is falsy or no
\* string.
handlerValidate ==
    /\ http.pc = "received"
    /\ http.handler \in ExportedHandlers
    /\ http' = IF http.method # "POST"
               THEN Respond(405, [NoPayload EXCEPT !.error = <<"Only POST method allowed">>])
               ELSE IF IsFalsy(http.body) \/ http.body.kind # "string"
               THEN Respond(400, [NoPayload EXCEPT !.error = <<"Missing or invalid code">>])
               ELSE [http EXCEPT !.pc = "working"]
    /\ UNCHANGED <<engineVars, earlier, calls, cli, fs, ui>>

\* The route handler of server.js and of part_004, up to the engine's call:
\* 400 for a code that is falsy or blank; code.trim() on a value that is no
\* string throws a TypeError inside the try, answered by the catch with 500.
appPostValidate ==
    /\ http.pc = "received"
    /\ http.handler \notin ExportedHandlers
    /\ http' = IF IsFalsy(http.body)
               THEN Respond(400, [NoPayload EXCEPT !.error = <<"No code provided">>])
               ELSE IF http.body.kind # "string"
               THEN Respond(500, [NoPayload EXCEPT
                                    !.error = <<"Modularization failed",
                                                "code.trim is not a function">>])
               ELSE IF IsBlank(http.body)
               THEN Respond(400, [NoPayload EXCEPT !.error = <<"No code provided">>])
               ELSE [http EXCEPT !.pc = "working"]
    /\ UNCHANGED <<engineVars, earlier, calls, cli, fs, ui>>

\* handler of pages/api/modularize.js, the try: processCode of a new
\* ReactModularizer; 200 with its result, 500 with the message of its error.
handlerInProcess ==
    /\ http.pc = "working"
    /\ http.handler = "pages/api/modularize.js"
    /\ IF RejectsBy(ApiModularizer, http.body.text)
       THEN http' = [Respond(500, [NoPayload EXCEPT
                                     !.error = <<"Modularization failed: ">>
                                               \o ErrorMessage(ApiModularizer, http.body.text)])
                     EXCEPT !.engineStarted = TRUE]
       ELSE \E r \in ResultsBy(ApiModularizer, http.body.text) :
               http' = [Respond(200, [NoPayload EXCEPT !.updatedApp = r.updatedApp,
                                                       !.components = r.components])
                        EXCEPT !.engineStarted = TRUE]
    /\ UNCHANGED <<engineVars, earlier, calls, cli, fs, ui>>

\* handler of part_002, the try: the code is written to App.jsx in a new
\* directory, lib/modularize.js is copied there and run as a child process,
\* then App.jsx and the files of components are read back.  The child
\* resolves its requires from the new directory: where they do not resolve it
\* exits with 1 and execSync throws.  Where they do, run() catches every error
\* of the engine and the child exits with 0.
handlerChildProcess ==
    /\ http.pc = "working"
    /\ http.handler = "part_002"
    /\ IF ~http.childDeps
       THEN http' = [Respond(500, [NoPayload EXCEPT
                                     !.error = <<"Internal error during modularization">>])
                     EXCEPT !.engineStarted = TRUE]
       ELSE IF RejectsBy("NextJSModularizer", http.body.text)
       THEN http' = [Respond(200, [NoPayload EXCEPT !.updatedApp = http.body.text])
                     EXCEPT !.engineStarted = TRUE]
       ELSE \E r \in ResultsBy("NextJSModularizer", http.body.text) :
               LET files == {[filename |-> r.components[k].filename,
                              code |-> (CHOOSE f \in
                                          {r.components[j] : j \in
                                             {i \in DOMAIN r.components :
                                                /\ r.components[i].filename
                                                      = r.components[k].filename
                                                /\ \A l \in DOMAIN r.components :
                                                      r.components[l].filename
                                                         = r.components[k].filename
                                                      => l <= i}} : TRUE).code]
                              : k \in DOMAIN r.components}
               IN http' = [Respond(200,
                              [NoPayload EXCEPT
                                 !.updatedApp = IF r.components = <<>>
                                                THEN http.body.text ELSE r.updatedApp,
                                 !.components =
                                    [k \in DOMAIN SeqOf(files) |->
                                       [name |-> SubSeq(SeqOf(files)[k].filename, 1,
                                                        Len(SeqOf(files)[k].filename) - 1),
                                        filename |-> SeqOf(files)[k].filename,
                                        code |-> SeqOf(files)[k].code]]])
                           EXCEPT !.engineStarted = TRUE]
    /\ UNCHANGED <<engineVars, earlier, calls, cli, fs, ui>>

\* The route handler of server.js, the try after the validation:
\* APIModularizer.processCode, which parses and extracts without collecting
\* the imports (here over a base class whose parser is loaded); 500 with the
\* message of the error it throws.  The payload of its 200 response and its
\* files are left to ServerSpec.
appPostProcessCode ==
    /\ http.pc = "working"
    /\ http.handler = "server.js"
    /\ http' = [(IF RejectsBy("ReactModularizerTest2", http.body.text)
                 THEN Respond(500, [NoPayload EXCEPT
                                      !.error = <<"Modularization failed">>
                                                \o ErrorMessage("ReactModularizerTest2",
                                                                 http.body.text)])
                 ELSE Respond(200, NoPayload))
                EXCEPT !.engineStarted = TRUE]
    /\ UNCHANGED <<engineVars, earlier, calls, cli, fs, ui>>

\* The route handler of part_004, the try after the validation:
\* processCodeInMemory, which works with regular expressions on the text and
\* does not parse it.  The payload of its 200 response is left out here.
appPostInMemory ==
    /\ http.pc = "working"
    /\ http.handler = "part_004"
    /\ http' = [Respond(200, NoPayload) EXCEPT !.engineStarted = TRUE]
    /\ UNCHANGED <<engineVars, earlier, calls, cli, fs, ui>>

HandlerNext ==
    \/ handlerValidate
    \/ appPostValidate
    \/ handlerInProcess
    \/ handlerChildProcess
    \/ appPostProcessCode
    \/ appPostInMemory

HandlerSpec == HandlerInit /\ [][HandlerNext]_vars

-----------------------------------------------------------------------------
(* The servers of server.js and the handler of part_002, with their files *)

\* server.js holds two servers, one after the other.  The first works on
\* /tmp/App.jsx and /tmp/components, the second on ./temp-App.jsx, ./App.jsx
\* and ./components.  The handler of part_002 works in a directory of its
\* own under os.tmpdir().
FirstServer == "server.js, lines 1 to 271"
SecondServer == "server.js, lines 273 to 535"
TempDirHandler == "part_002"
Servers == {FirstServer, SecondServer, TempDirHandler}

\* The class APIModularizer extends, require('./modularize'): the class of
\* part_003, or the class of lib/Testmodularize.jsTest2.
Bases == {"ReactModularizer", "ReactModularizerTest2"}

\* The texts requests carry: a function candidate, a bound candidate, the
\* sample with both, a host with no candidate, a statement with two
\* candidates, a text that does not parse; with and without an import.
ServerInputs ==
    {Text("raw", p \o d) :
        p \in {<<>>, <<HostReactImport>>},
        d \in {<<HeaderDecl>>, <<SidebarDecl>>, <<HeaderDecl, SidebarDecl, AppDecl>>,
               <<AppDecl>>, <<TabsStmt>>, <<Unterminated>>}}

\* The paths a server works on: its App.jsx (host), its components directory
\* (dir) with the files in it (files), and the other paths it makes (temp).
TmpFs(host, dir, files, temp) ==
    [host |-> host, dir |-> dir, files |-> files, temp |-> temp]

\* An App.jsx that is at the path before any request.
PriorApp == Text("pretty", <<ApiImport, AppDecl>>)

NewRequest(server, base, text, deps) ==
    [server |-> server, base |-> base, text |-> text, childDeps |-> deps,
     pc |-> "received", files |-> <<>>, updatedApp |-> NoText, status |-> 0,
     error |-> "none", fs0 |-> TmpFs(NoText, FALSE, {}, {})]

\* this.parseToAST(code); this.extractComponents(ast) of APIModularizer
\* throws.  The parser of part_003 is loaded by loadDependencies, which run()
\* and the processCode of part_003 call and APIModularizer.processCode does
\* not: parser.parse is then a property of undefined.
ServerRejects(base, text) ==
    \/ base = "ReactModularizer"
    \/ RejectsBy("ReactModularizerTest2", text)

\* this.extractedComponents after extractComponents.
ServerFound(text) == ScanBy("ReactModularizerTest2", parseToAST(text))

\* The entry generateComponentFiles pushes to componentFiles.
ServerComponent(component) ==
    [name |-> component.name,
     filename |-> FileName(component.name),
     code |-> formatCode(ExportCodeBy("ReactModularizerTest2", component), FALSE)]

\* What updateAppFile(ast) resolves with.
ServerUpdatedApp(text) ==
    LET tree == parseToAST(text)
        found == ServerFound(text)
    IN formatCode(UpdatedContentBy("ReactModularizerTest2",
                                   RemoveAll(tree, ScanPathsBy("ReactModularizerTest2", tree)),
                                   [k \in DOMAIN found |-> ImportLine(found[k].name)]),
                  FALSE)

\* cleanupTempFiles: App.jsx is unlinked and the components directory is
\* removed with all that is in it, where they exist.
cleanupTempFiles(f) == [f EXCEPT !.host = NoText, !.dir = FALSE, !.files = {}]

ServerInit ==
    /\ \E server \in Servers, base \in Bases, text \in ServerInputs, deps \in BOOLEAN,
          host \in {NoText, PriorApp}, dir \in BOOLEAN, files \in {{}, {StaleFile}} :
          /\ files # {} => dir
          /\ server = TempDirHandler =>
                (base = "ReactModularizer" /\ host = NoText /\ ~dir)
          /\ server # TempDirHandler => deps
          /\ fs = TmpFs(host, dir, files, {})
          /\ calls = <<[NewRequest(server, base, text, deps) EXCEPT !.fs0 = fs]>>
    /\ code = NoText
    /\ pc = "idle"
    /\ runs = 0
    /\ clsName = NoName
    /\ clsResult = "none"
    /\ Idle
    /\ earlier = <<>>
    /\ cli = NoCli
    /\ http = NoHttp
    /\ ui = NoUi

\* Another request reaches the server while the first is there.
secondRequest ==
    /\ Len(calls) = 1
    /\ calls[1].server # TempDirHandler
    /\ \E text \in ServerInputs :
          calls' = Append(calls, [NewRequest(calls[1].server, calls[1].base, text, TRUE)
                                    EXCEPT !.fs0 = fs])
    /\ UNCHANGED <<engineVars, earlier, cli, fs, http, ui>>

\* The route handler of server.js for a code that passes its validation, up
\* to the first await that does not resolve at once.  The second server
\* writes ./temp-App.jsx.  APIModularizer.processCode writes App.jsx, parses
\* and extracts; on an error it cleans up and rethrows; with no candidate it
\* returns; otherwise generateComponentFiles starts (the first server makes
\* /tmp/components where it is not there) and awaits the first formatCode.
appPost(c) ==
    /\ calls[c].pc = "received"
    /\ calls[c].server \in {FirstServer, SecondServer}
    /\ LET r == calls[c]
           wrote == [fs EXCEPT !.host = r.text,
                               !.temp = IF r.server = SecondServer
                                        THEN @ \cup {"./temp-App.jsx"} ELSE @]
       IN IF ServerRejects(r.base, r.text)
          THEN /\ fs' = cleanupTempFiles(wrote)
               /\ calls' = [calls EXCEPT ![c].pc = "threw",
                                         ![c].error = "Failed to parse code"]
          ELSE IF ServerFound(r.text) = <<>>
          THEN /\ fs' = wrote
               /\ calls' = [calls EXCEPT ![c].pc = "returned", ![c].updatedApp = r.text]
          ELSE /\ fs' = IF r.server = FirstServer THEN [wrote EXCEPT !.dir = TRUE]
                        ELSE wrote
               /\ calls' = [calls EXCEPT ![c].pc = "formatCode"]
    /\ UNCHANGED <<engineVars, earlier, cli, http, ui>>

\* generateComponentFiles resumes after an awaited formatCode.  The first
\* server writes the file to /tmp/components, and writeFileSync throws when
\* the directory is not there: processCode cleans up and rethrows.  The entry
\* is pushed and the loop goes on, to the next formatCode or, at its end, to
\* the awaited updateAppFile.
serverGenerateComponentFiles(c) ==
    /\ calls[c].pc = "formatCode"
    /\ LET r == calls[c]
           component == ServerComponent(ServerFound(r.text)[Len(r.files) + 1])
       IN IF r.server = FirstServer /\ ~fs.dir
          THEN /\ fs' = cleanupTempFiles(fs)
               /\ calls' = [calls EXCEPT ![c].pc = "threw",
                                         ![c].error = "ENOENT: no such file or directory"]
          ELSE /\ fs' = IF r.server = FirstServer
                        THEN [fs EXCEPT !.files =
                                 WriteFile(fs.files, component.filename, component.code)]
                        ELSE fs
               /\ calls' = [calls EXCEPT
                               ![c].files = Append(r.files, component),
                               ![c].pc = IF Len(r.files) + 1 = Len(ServerFound(r.text))
                                         THEN "updateAppFile" ELSE "formatCode"]
    /\ UNCHANGED <<engineVars, earlier, cli, http, ui>>

\* processCode resumes after the awaited updateAppFile: cleanupTempFiles,
\* then it returns its result.
serverUpdateAppFile(c) ==
    /\ calls[c].pc = "updateAppFile"
    /\ fs' = cleanupTempFiles(fs)
    /\ calls' = [calls EXCEPT ![c].pc = "returned",
                              ![c].updatedApp = ServerUpdatedApp(calls[c].text)]
    /\ UNCHANGED <<engineVars, earlier, cli, http, ui>>

\* The route handler resumes after the awaited processCode: the second
\* server unlinks ./temp-App.jsx where it exists, and the result is sent;
\* after an error the catch sends 500.
appPostRespond(c) ==
    /\ calls[c].pc \in {"returned", "threw"}
    /\ fs' = IF calls[c].server = SecondServer /\ calls[c].pc = "returned"
             THEN [fs EXCEPT !.temp = @ \ {"./temp-App.jsx"}]
             ELSE fs
    /\ calls' = [calls EXCEPT ![c].pc = "responded",
                              ![c].status = IF calls[c].pc = "returned" THEN 200 ELSE 500]
    /\ UNCHANGED <<engineVars, earlier, cli, http, ui>>

\* handler of part_002 for a code that passes its validation, as far as its
\* files go: the directory, components, App.jsx and lib/modularize.js in it
\* are made, the child process runs, and the directory is removed after the
\* files were read.  When execSync throws, the catch answers 500 and the
\* directory stays.
handlerTempDir(c) ==
    /\ calls[c].pc = "received"
    /\ calls[c].server = TempDirHandler
    /\ IF calls[c].childDeps
       THEN /\ fs' = TmpFs(NoText, FALSE, {}, {})
            /\ calls' = [calls EXCEPT ![c].pc = "responded", ![c].status = 200]
       ELSE /\ fs' = TmpFs(calls[c].text, TRUE, {},
                           {"modularizer-<now>", "modularizer-<now>/lib/modularize.js"})
            /\ calls' = [calls EXCEPT ![c].pc = "responded", ![c].status = 500,
                                      ![c].error = "Internal error during modularization"]
    /\ UNCHANGED <<engineVars, earlier, cli, http, ui>>

ServerNext ==
    \/ secondRequest
    \/ \E c \in DOMAIN calls : appPost(c)
    \/ \E c \in DOMAIN calls : serverGenerateComponentFiles(c)
    \/ \E c \in DOMAIN calls : serverUpdateAppFile(c)
    \/ \E c \in DOMAIN calls : appPostRespond(c)
    \/ \E c \in DOMAIN calls : handlerTempDir(c)

ServerSpec == ServerInit /\ [][ServerNext]_vars

-----------------------------------------------------------------------------

(* The page of part_001: the React component ReactModularizer *)

\* What the awaited fetch and response.json() can come to: a result with its
\* components, a JSON value without components, a response that is not ok, a
\* rejected fetch.
Responses == {"result", "no components", "not ok", "rejected"}

UiInit ==
    /\ ui = NoUi
    /\ code = NoText
    /\ pc = "idle"
    /\ runs = 0
    /\ clsName = NoName
    /\ clsResult = "none"
    /\ Idle
    /\ earlier = <<>>
    /\ calls = <<>>
    /\ cli = NoCli
    /\ fs = NoFs
    /\ http = NoHttp

\* loadExample: setCode(exampleCode); updateStatus('Example loaded', 'success')
loadExample ==
    /\ ui' = [ui EXCEPT !.code = "example", !.status = "success"]
    /\ UNCHANGED <<engineVars, earlier, calls, cli, fs, http>>

\* clearInput: setCode(''); updateStatus('Input cleared', 'success')
clearInput ==
    /\ ui' = [ui EXCEPT !.code = "blank", !.status = "success"]
    /\ UNCHANGED <<engineVars, earlier, calls, cli, fs, http>>

\* finally { setProcessing(false); setTimeout(() => setProgress(0), 1000); }
Finally(page) ==
    [page EXCEPT !.processing = FALSE, !.pc = "idle", !.timers = @ \cup {page.run}]

\* A click on the button, which is disabled while processing is true:
\* processCode up to its first await.  With a blank code it sets the status
\* and returns; otherwise setProcessing(true), setProgress(0) and
\* updateProgress(25, ...) run in one handler, and the page is rendered with
\* their last values.
processCodeClick ==
    /\ ~ui.processing
    /\ ui.run < MaxRuns
    /\ ui' = IF ui.code = "blank"
             THEN [ui EXCEPT !.status = "error"]
             ELSE [ui EXCEPT !.processing = TRUE, !.progress = 25,
                             !.status = "processing", !.pc = "25",
                             !.run = @ + 1, !.response = "none"]
    /\ UNCHANGED <<engineVars, earlier, calls, cli, fs, http>>

\* The 300 ms timer of an awaited updateProgress fires and processCode goes
\* on to its next await: the next updateProgress, the fetch, or (after 100)
\* setResults and the status of the result, where result.components.length
\* throws for a value without components, the catch, and the finally.
updateProgress ==
    /\ ui.pc \in {"25", "50", "75", "100"}
    /\ ui' = IF ui.pc = "25" THEN [ui EXCEPT !.progress = 50, !.pc = "50"]
             ELSE IF ui.pc = "50" THEN [ui EXCEPT !.progress = 75, !.pc = "75"]
             ELSE IF ui.pc = "75" THEN [ui EXCEPT !.pc = "fetch"]
             ELSE Finally([ui EXCEPT !.results = ui.response,
                                     !.status = IF ui.response = "result"
                                                THEN "success" ELSE "error"])
    /\ UNCHANGED <<engineVars, earlier, calls, cli, fs, http>>

\* The awaited fetch and response.json() settle: with a JSON value
\* updateProgress(100, ...) is called and awaited; a response that is not ok
\* and a rejected fetch end in the catch and the finally.
fetchSettles ==
    /\ ui.pc = "fetch"
    /\ \E response \in Responses :
          ui' = IF response \in {"result", "no components"}
                THEN [ui EXCEPT !.response = response, !.progress = 100,
                                !.status = "processing", !.pc = "100"]
                ELSE Finally([ui EXCEPT !.response = response, !.status = "error"])
    /\ UNCHANGED <<engineVars, earlier, calls, cli, fs, http>>

\* The one-second timer a finally has set fires: setProgress(0).
resetProgress ==
    /\ \E r \in ui.timers :
          ui' = [ui EXCEPT !.progress = 0, !.timers = @ \ {r}]
    /\ UNCHANGED <<engineVars, earlier, calls, cli, fs, http>>

UiNext ==
    \/ loadExample
    \/ clearInput
    \/ processCodeClick
    \/ updateProgress
    \/ fetchSettles
    \/ resetProgress

UiSpec == UiInit /\ [][UiNext]_vars

-----------------------------------------------------------------------------

(* Notions the properties below are stated in *)

ReservedEntryNames == {App, MyApp, Home, Index, Page, Layout}

IsUpperCaseLetter(ch) == \E i \in DOMAIN UpperCase : UpperCase[i] = ch

Terminated == pc \in {"done", "rejected"}

Names(records) == [i \in DOMAIN records |-> records[i].name]

\* The import lines of components in a text, in the order they stand in.
ComponentImports(text) ==
    SelectSeq(text.lines, LAMBDA l : /\ l.type = "ImportDeclaration"
                                     /\ l.source # <<>>
                                     /\ l.source[1] = "./components/")

\* The line import <Name> from './components/<Name>';
ComponentImportOf(name) ==
    [type |-> "ImportDeclaration", head |-> "import", id |-> name,
     source |-> <<"./components/", name>>, declarations |-> <<>>,
     body |-> <<>>, marks |-> {}, uid |-> NoUid]

CountOf(seq, x) == Cardinality({i \in DOMAIN seq : seq[i] = x})

\* The names a text declares at its top level.
TopLevelNames(text) ==
    UNION {{BoundNames(Statements(text)[i])[k] : k \in DOMAIN BoundNames(Statements(text)[i])}
           : i \in DOMAIN Statements(text)}

\* A top-level statement that declares a component: a function declaration
\* with an extractable name, or a binding statement one of whose names is
\* extractable and bound to a function value.
DeclaresComponent(stmt) ==
    \/ stmt.type = "FunctionDeclaration" /\ isExtractableComponent(stmt.id)
    \/ /\ stmt.type = "VariableDeclaration"
       /\ \E d \in DOMAIN stmt.declarations :
             /\ IsFunctionValue(stmt.declarations[d])
             /\ isExtractableComponent(stmt.declarations[d].id)

\* The statements of the returned host text that the run did not inject.
SurvivingStatements ==
    SelectSeq(Statements(result.updatedApp),
              LAMBDA l : \A i \in DOMAIN result.components :
                            l # ComponentImportOf(result.components[i].name))

RECURSIVE LexLess(_, _)
LexLess(p, q) ==
    IF p = <<>> THEN q # <<>>
    ELSE IF q = <<>> THEN FALSE
    ELSE IF Head(p) # Head(q) THEN Head(p) < Head(q)
    ELSE LexLess(Tail(p), Tail(q))

\* The component declarations of a text, each with its source position: the
\* position of its statement, then the place of the binding in the statement
\* (0 for a function declaration).
ComponentPositions(text) ==
    LET nodes == {n \in AllNodes(parseToAST(text)) : IsDeclaration(n)}
    IN {<<n.uid, 0, n.id>> :
           n \in {m \in nodes : m.type = "FunctionDeclaration"
                                /\ isExtractableComponent(m.id)}}
       \cup UNION {{<<n.uid, d, n.declarations[d].id>> :
                      d \in {e \in DOMAIN n.declarations :
                               /\ IsFunctionValue(n.declarations[e])
                               /\ isExtractableComponent(n.declarations[e].id)}}
                   : n \in {m \in nodes : m.type = "VariableDeclaration"}}

\* Declaration e stands before declaration f in the source.
StandsBefore(e, f) == LexLess(e[1], f[1]) \/ (e[1] = f[1] /\ e[2] < f[2])

\* The names of the component declarations of a text in source order.
NamesInSourceOrder(text) ==
    LET K == ComponentPositions(text)
        rank(e) == 1 + Cardinality({f \in K : StandsBefore(f, e)})
    IN [i \in 1..Cardinality(K) |-> (CHOOSE e \in K : rank(e) = i)[3]]

\* The names the function declarations and binding statements of a text
\* declare at its top level.
DeclaredNames(text) ==
    TopLevelNames(Text(text.layout,
                       SelectSeq(text.lines, LAMBDA l : IsDeclaration(l))))

HostHas(stmt) == \E i \in DOMAIN code.lines : code.lines[i] = stmt

-----------------------------------------------------------------------------
(* Properties *)

\* C1. Exclusion invariant: in every state of every run, no recorded
\* candidate, generated module or returned module has a reserved entry name
\* (App, MyApp, Home, Index, Page, Layout), also when the host declares a
\* function of that name.
C1_Exclusion ==
    /\ \A i \in DOMAIN extractedComponents :
          extractedComponents[i].name \notin ReservedEntryNames
    /\ \A i \in DOMAIN components : components[i].name \notin ReservedEntryNames
    /\ \A i \in DOMAIN result.components :
          result.components[i].name \notin ReservedEntryNames

\* A run over a host that declares function App has returned candidates, and
\* App is still declared in the returned host.
C1_Witness ==
    /\ pc = "done"
    /\ HostHas(AppDecl)
    /\ Len(result.components) > 0
    /\ App \in TopLevelNames(result.updatedApp)

\* C2. isExtractableComponent(name) is truthy exactly when name is not empty,
\* its first character is an uppercase letter, it is longer than one
\* character and it is not a reserved entry name.
C2_Classifier ==
    clsResult # "none" =>
       ((clsResult = "truthy") <=>
           /\ clsName # NoName
           /\ IsUpperCaseLetter(clsName[1])
           /\ Len(clsName) > 1
           /\ clsName \notin ReservedEntryNames)

\* C3. Conservation: the import lines and the candidates of the engine are
\* always as many; when processCode returns, the modules, the candidates and
\* the injected import lines are as many, the i-th module is the i-th
\* candidate's (filename = name.jsx), and the returned host has, for every
\* candidate, exactly one more line import <Name> from './components/<Name>'
\* per candidate of that name than the input had.
C3_Conservation ==
    /\ Len(imports) = Len(extractedComponents)
    /\ pc = "done" =>
          /\ Len(result.components) = Len(extractedComponents)
          /\ Len(ComponentImports(result.updatedApp))
                = Len(ComponentImports(code)) + Len(extractedComponents)
          /\ \A i \in DOMAIN extractedComponents :
                /\ result.components[i].name = extractedComponents[i].name
                /\ result.components[i].filename
                      = extractedComponents[i].name \o <<".jsx">>
                /\ CountOf(result.updatedApp.lines,
                           ComponentImportOf(extractedComponents[i].name))
                      = CountOf(code.lines, ComponentImportOf(extractedComponents[i].name))
                        + Cardinality({j \in DOMAIN extractedComponents :
                                          extractedComponents[j].name
                                             = extractedComponents[i].name})

\* A run has returned two candidates or more, one a function declaration and
\* one a bound expression.
C3_Witness ==
    /\ pc = "done"
    /\ Len(result.components) >= 2
    /\ \E i, j \in DOMAIN extractedComponents :
          /\ extractedComponents[i].type = "function"
          /\ extractedComponents[j].type = "arrow"

\* C4. Order preservation: the names of the returned modules are the
\* component declarations of the input in source order, and the injected
\* import lines follow the existing component imports in that same order.
C4_OrderPreserved ==
    pc = "done" =>
       /\ Names(result.components) = NamesInSourceOrder(code)
       /\ ComponentImports(result.updatedApp)
             = ComponentImports(code)
               \o [i \in DOMAIN result.components |->
                     ComponentImportOf(result.components[i].name)]

\* A run has returned a bound-expression candidate before a function
\* candidate that is no part of it.
C4_Witness ==
    /\ pc = "done"
    /\ \E i, j \in DOMAIN extractedComponents :
          /\ i < j
          /\ extractedComponents[i].type = "arrow"
          /\ extractedComponents[j].type = "function"
          /\ HostHas(extractedComponents[i].code)
          /\ HostHas(extractedComponents[j].code)

\* C5. Idempotence: processCode called on the updatedApp text of a call that
\* succeeded returns, with no candidate and an empty list of modules.
C5_Idempotence ==
    (runs >= 2 /\ Terminated) =>
       /\ pc = "done"
       /\ extractedComponents = <<>>
       /\ result.components = <<>>

IsScenarioB(stmt) ==
    /\ stmt.type = "VariableDeclaration"
    /\ Len(stmt.declarations) = 2
    /\ \E d, e \in DOMAIN stmt.declarations :
          /\ d # e
          /\ IsFunctionValue(stmt.declarations[d])
          /\ isExtractableComponent(stmt.declarations[d].id)
          /\ ~isExtractableComponent(stmt.declarations[e].id)

C9_TopLevelOnly ==
    /\ \A i \in DOMAIN componentsToRemove : Len(componentsToRemove[i]) = 1
    /\ pc = "done" =>
          \A i \in DOMAIN SurvivingStatements :
             \E k \in DOMAIN code.lines : code.lines[k] = SurvivingStatements[i]

\* C10. A call that finds no candidate returns the text it was given,
\* unchanged, and an empty list of components.
C10_ShortCircuit ==
    (pc = "done" /\ extractedComponents = <<>>) =>
       /\ result.updatedApp = code
       /\ result.components = <<>>

\* C11. No leakage between the calls made one after another on an instance:
\* right after the reset the candidate list and the import list are empty,
\* and a call, whatever the instance was called with before, rejects exactly
\* the texts a new instance rejects and resolves with a result a new instance
\* resolves with: the same modules, import lines and extractedCount.
C11_NoLeakage ==
    /\ pc = "extractImports" => extractedComponents = <<>> /\ imports = <<>>
    /\ pc = "rejected" => Rejects(code)
    /\ pc = "done" =>
          /\ ~Rejects(code)
          /\ result \in Results(code)
          /\ imports = [k \in DOMAIN Scan(parseToAST(code)) |->
                          ImportLine(Scan(parseToAST(code))[k].name)]

\* A second call has resolved with modules, on an instance whose first call
\* resolved with modules of other names.
C11_Witness ==
    /\ runs = 2
    /\ pc = "done"
    /\ Len(earlier) = 1
    /\ earlier[1].result.components # <<>>
    /\ result.components # <<>>
    /\ \A i \in DOMAIN earlier[1].result.components :
          \A j \in DOMAIN result.components :
             earlier[1].result.components[i].name # result.components[j].name

\* C12. Run-scoped isolation: of two calls on one instance, however they
\* interleave at their awaits, each one that returns returns a result of its
\* own text: its import lines, its components, its extractedCount.
C12_Isolation ==
    \A c \in DOMAIN calls :
       calls[c].pc = "done" => calls[c].result \in Results(calls[c].code)

\* C13. Parse-failure atomicity of run() in part_003: when the host file
\* does not parse, in every state of the run the components directory, the
\* component files and the host file are as they were when the run began,
\* and the run ends rejected with a parse failure and exit status 1.
C13_ParseFailureAtomic ==
    (cli.entry = "ReactModularizer" /\ cli.fs0.host # NoText /\ ParseFails(cli.fs0.host)) =>
       /\ fs = cli.fs0
       /\ cli.pc \in {"readAppFile", "processCode", "exited"}
       /\ cli.pc = "exited" =>
             /\ cli.outcome = "rejected"
             /\ cli.fatal = "parse failure"
             /\ cli.exit = 1

\* run() of part_003 has ended on a host file that does not parse, with no
\* components directory made.
C13_Witness ==
    /\ cli.entry = "ReactModularizer"
    /\ ParseFails(cli.fs0.host)
    /\ cli.pc = "exited"
    /\ cli.outcome = "rejected"
    /\ ~cli.fs0.dir
    /\ ~fs.dir

\* C14. Input validation at the API boundary: a request whose code field is
\* missing, empty or no string is answered with 400 by every modularize
\* handler, and no engine work is started for it.
C14_Validation ==
    (/\ http.pc = "responded"
     /\ http.method = "POST"
     /\ http.body.kind \in {"missing", "empty", "number", "array", "object"}) =>
       /\ http.status = 400
       /\ ~http.engineStarted

\* C15. A parse failure is surfaced through the API: for a text that does
\* not parse, the handler of pages/api/modularize.js and the handler of
\* part_002 answer with an error that carries the parser message, never with
\* 200 and the input as updatedApp.
C15_ParseFailureSurfaced ==
    (/\ http.pc = "responded"
     /\ http.handler \in ExportedHandlers
     /\ http.method = "POST"
     /\ http.body.kind = "string"
     /\ ParseFails(http.body.text)) =>
       /\ http.status # 200
       /\ \E i \in DOMAIN http.payload.error : http.payload.error[i] = ParserMessage

\* C16. In every command-line entry point, a run that ends on a fatal error
\* (missing input file, parse failure, write failure) ends the process with
\* an exit status that is not zero.
C16_FatalExitStatus ==
    (/\ cli.pc = "exited"
     /\ cli.fatal \in {"missing input file", "parse failure", "write failure"}) =>
       cli.exit # 0

\* The texts among the given ones that are not in the formatter's layout.
Unformatted(texts) == {i \in DOMAIN texts : texts[i].layout # "pretty"}

\* C17. A formatter failure never fails a call: a first call in which the
\* formatter has thrown is not rejected; every module text is the assembled
\* text of its candidate, formatted or, where the formatter threw, exactly as
\* assembled; so is the returned host text; and as many texts are
\* unformatted as formatter calls threw.
C17_FormatterFallback ==
    /\ (runs = 1 /\ formatFailures > 0) => pc # "rejected"
    /\ \A i \in DOMAIN components :
          components[i].code \in {ExportCode(extractedComponents[i]),
                                  prettierFormat(ExportCode(extractedComponents[i]))}
    /\ pc = "done" =>
          /\ result.components = components
          /\ result.updatedApp \in {UpdatedContent(ast, imports),
                                     prettierFormat(UpdatedContent(ast, imports))}
    /\ (runs = 1 /\ pc \in {"generate", "done"}) =>
          formatFailures
             = Cardinality(Unformatted([i \in DOMAIN components |-> components[i].code]))
               + (IF pc = "done" /\ result.updatedApp.layout # "pretty" THEN 1 ELSE 0)

\* A call has resolved with two modules or more, one of them unformatted
\* after a formatter failure and another formatted.
C17_Witness ==
    /\ runs = 1
    /\ pc = "done"
    /\ formatFailures = 1
    /\ \E i, j \in DOMAIN result.components :
          /\ result.components[i].code = ExportCode(extractedComponents[i])
          /\ result.components[j].code = prettierFormat(ExportCode(extractedComponents[j]))

\* A line that exports a default.
IsDefaultExport(line) ==
    line.head = "export default function" \/ line.type = "ExportDefaultDeclaration"

\* C18. Every generated module default-exports its candidate: the module of
\* a function declaration holds the declaration with export default function
\* <Name> for its head and the rest unchanged, the module of a bound
\* expression ends with the statement, an empty line and export default
\* <Name>;, and every module has exactly one default export.
C18_DefaultExport ==
    \A i \in DOMAIN components :
       LET candidate == extractedComponents[i]
           lines == components[i].code.lines
       IN /\ Cardinality({k \in DOMAIN lines : IsDefaultExport(lines[k])}) = 1
          /\ candidate.type = "function" =>
                lines[Len(lines)] = [candidate.code EXCEPT
                                       !.head = "export default function",
                                       !.id = candidate.name]
          /\ candidate.type = "arrow" =>
                /\ Len(lines) >= 3
                /\ SubSeq(lines, Len(lines) - 2, Len(lines))
                      = <<candidate.code, Blank, ExportDefault(candidate.name)>>

\* The names a module imports from 'react'.
RuntimeImports(text) ==
    UNION {{BoundNames(text.lines[k])[n] : n \in DOMAIN BoundNames(text.lines[k])}
           : k \in {j \in DOMAIN text.lines :
                       /\ text.lines[j].type = "ImportDeclaration"
                       /\ text.lines[j].source = <<"react">>}}

\* C19. No needed runtime import is omitted: the module of a candidate whose
\* text refers to useState imports useState from 'react', and the module of
\* a candidate whose text refers to React imports React.
C19_RuntimeImports ==
    \A i \in DOMAIN components :
       LET marks == Markers(extractedComponents[i].code)
       IN /\ "useState" \in marks => useState \in RuntimeImports(components[i].code)
          /\ "React." \in marks => React \in RuntimeImports(components[i].code)

\* C20. A host with import statements is processed: extractImports never
\* makes the call reject, and once it is over existingImports holds the
\* import statements of the host in order.
C20_ImportsCollected ==
    /\ error # "Code processing failed: Cannot read properties of undefined"
    /\ pc \in {"traverse", "generate", "done"} =>
          existingImports
             = SelectSeq(Statements(code), LAMBDA l : l.type = "ImportDeclaration")

\* C21: running the command-line tool again is safe.  A components directory
\* that exists, and component files that exist at the paths the run writes,
\* never make run() fail: with no fault of the file system the run fails only
\* for a missing host file or for a text its engine rejects, the directory is
\* used again, and every file written holds the text of this run.
C21_RerunSafe ==
    (cli.pc = "exited" /\ cli.faults = 0) =>
        /\ cli.fatal \in {"none", "missing input file", "parse failure", "engine failure"}
        /\ cli.fatal = "missing input file" => cli.fs0.host = NoText
        /\ cli.fatal \in {"parse failure", "engine failure"}
              => RejectsBy(cli.entry, cli.content)
        /\ (cli.fatal = "none" /\ cli.result.components # <<>>) =>
              /\ fs.dir
              /\ \A k \in DOMAIN cli.result.components :
                    \E f \in fs.files :
                       /\ f.filename = cli.result.components[k].filename
                       /\ \E j \in DOMAIN cli.result.components :
                             /\ cli.result.components[j].filename = f.filename
                             /\ cli.result.components[j].code = f.code
              /\ \A f, g \in fs.files : f.filename = g.filename => f = g

\* A run that found the directory and a file of an earlier run at the path of
\* a component it extracts, and has written its own text there.
C21_Witness ==
    /\ cli.pc = "exited"
    /\ cli.entry = "ReactModularizer"
    /\ cli.fatal = "none"
    /\ cli.faults = 0
    /\ cli.fs0.dir
    /\ StaleFile \in cli.fs0.files
    /\ StaleFile \notin fs.files
    /\ \E f \in fs.files : f.filename = StaleFile.filename

\* C22: no temporary file is left behind.  When every request has been
\* answered, on whatever path, App.jsx does not hold the code of a request,
\* the components directory is there only if it was there before the first
\* request, and none of the other temporary paths exists.
C22_NoArtifacts ==
    (\A c \in DOMAIN calls : calls[c].pc = "responded") =>
        /\ \A c \in DOMAIN calls : fs.host # calls[c].text
        /\ fs.dir => calls[1].fs0.dir
        /\ fs.temp = {}

\* What a request is answered with when no other request is there.
AloneOutcome(r) ==
    IF ServerRejects(r.base, r.text)
    THEN [status |-> 500, updatedApp |-> NoText, files |-> <<>>]
    ELSE IF ServerFound(r.text) = <<>>
    THEN [status |-> 200, updatedApp |-> r.text, files |-> <<>>]
    ELSE [status |-> 200, updatedApp |-> ServerUpdatedApp(r.text),
          files |-> [k \in DOMAIN ServerFound(r.text) |->
                       ServerComponent(ServerFound(r.text)[k])]]

C29_FrameOfRequest ==
    \A c \in DOMAIN calls :
        (calls[c].pc = "responded" /\ calls[c].server \in {FirstServer, SecondServer}) =>
            /\ calls[c].fs0.host # NoText => fs.host = calls[c].fs0.host
            /\ calls[c].fs0.dir => (fs.dir /\ calls[c].fs0.files \subseteq fs.files)

\* The positions of the lines of a text that are import lines of this call,
\* and of those that are imports the host had before.
NewImportPositions(lines) ==
    {i \in DOMAIN lines : \E k \in DOMAIN imports : lines[i] = imports[k]}

OldImportPositions(lines) ==
    {i \in DOMAIN lines : lines[i].type = "ImportDeclaration"} \ NewImportPositions(lines)

\* C23: where updateAppFile puts the import lines.  In the host text a call
\* returns, the import lines of the call stand in discovery order in one
\* block after an empty line, every import the host had stands before the
\* block, and nothing but imports and empty lines stands before it: the block
\* follows the last import of the host, and is at the top when the host has
\* none, whatever lines the host starts with.
C23_InsertionPoint ==
    (pc = "done" /\ imports # <<>>) =>
        LET lines == result.updatedApp.lines
            new == NewImportPositions(lines)
            old == OldImportPositions(lines)
            first == CHOOSE i \in new : \A j \in new : i <= j
        IN /\ Cardinality(new) = Len(imports)
           /\ \A k \in DOMAIN imports : lines[first + k - 1] = imports[k]
           /\ first > 1 => lines[first - 1].type = "Blank"
           /\ \A i \in old : i < first
           /\ \A i \in 1..(first - 1) : lines[i].type \in {"Blank", "ImportDeclaration"}

\* The text holds one of 'useState', 'useEffect', 'React.', '<', '/>'.
HasRuntimeMarker(text) ==
    Markers(text) \cap {"useState", "useEffect", "React.", "<", "/>"} # {}

C25_TwoPhaseScan ==
    /\ (pc = "traverse" /\ todo # <<>>) =>
          /\ removed = {}
          /\ removeIdx = 1
          /\ ast = parseToAST(code)
    /\ pc \in {"traverse", "generate", "done"} =>
          /\ Len(componentsToRemove) = Len(extractedComponents)
          /\ \A k \in DOMAIN extractedComponents :
                extractedComponents[k].code
                   = generate(NodeByUid(parseToAST(code), componentsToRemove[k]))
          /\ removed = {componentsToRemove[i] : i \in 1..(removeIdx - 1)}
          /\ pc # "traverse" => removeIdx = Len(componentsToRemove) + 1

\* The traversal of a host with two candidates at least is over, the first
\* path is removed and the second is not yet.
C25_Witness ==
    /\ pc = "traverse"
    /\ todo = <<>>
    /\ Len(extractedComponents) >= 2
    /\ removeIdx = 2
    /\ removed = {componentsToRemove[1]}
    /\ componentsToRemove[2] \notin removed
    /\ ast # parseToAST(code)

\* C26: the paths to remove are a set.  No statement is pushed twice, also
\* when it binds two extractable names, each of them a candidate of its own,
\* and no call is rejected for a path removed twice.
C26_RemovalSet ==
    /\ \A i, j \in DOMAIN componentsToRemove :
          componentsToRemove[i] = componentsToRemove[j] => i = j
    /\ error # "Code processing failed: NodePath has been removed so is read-only."

\* C28: the order of the writes of run() in part_003.  The host file holds
\* another text than before the run only when the components directory is
\* there and every component file is written, and then it holds the updated
\* text; when the directory cannot be made or a file cannot be written, the
\* host file holds what it held and run() rejects.
C28_WriteOrdering ==
    cli.entry = "ReactModularizer" =>
        /\ fs.host # cli.fs0.host =>
              /\ fs.dir
              /\ cli.written = Len(cli.result.components)
              /\ \A k \in DOMAIN cli.result.components :
                    \E f \in fs.files : f.filename = cli.result.components[k].filename
              /\ fs.host = cli.result.updatedApp
        /\ (cli.pc = "exited" /\ cli.fatal = "write failure") =>
              /\ fs.host = cli.fs0.host
              /\ cli.outcome = "rejected"
              /\ cli.exit = 1

\* run() has made the directory, the write of a component file has failed,
\* and the host file is as it was.
C28_Witness ==
    /\ cli.entry = "ReactModularizer"
    /\ cli.pc = "exited"
    /\ cli.fatal = "write failure"
    /\ ~cli.fs0.dir
    /\ fs.dir
    /\ cli.written < Len(cli.result.components)
    /\ fs.host = cli.fs0.host
    /\ fs.host # cli.result.updatedApp

\* C30: the life of a run on the page.  processing is true only while a run
\* of processCode is between its first await and its finally, and while it
\* is true the progress is above 0: no timer of an earlier run sets it to 0.
C30_RunLifecycle ==
    /\ ui.processing <=> ui.pc \in {"25", "50", "75", "fetch", "100"}
    /\ ui.processing => ui.progress > 0

====
